---- MODULE Spec2Model ----
(***************************************************************************)
(* Task lifecycle and result caching of the code-review agent.             *)
(*                                                                         *)
(* The shared Redis store holds task records (task:<id>), result records   *)
(* (results:<id>) and PR-analysis cache entries (pr_analysis:<hash>).      *)
(* One API request handler at a time runs against the store.  A handler   *)
(* and an execution unit are sequences of steps; a step is one call into   *)
(* the Task Store (or the dispatch substrate), and the steps of the        *)
(* handler, of the units and of the clock interleave.                      *)
(***************************************************************************)
EXTENDS Integers, Sequences, FiniteSets, TLC

\* ------------------------------------------------------------------ bounds
MaxTasks == 2        \* number of uuid4 task ids drawn in a run
MaxTicks == 1        \* number of clock advances in a run
MaxStored == 3       \* number of task keys in a store given as a whole
MaxParams == 2       \* number of keyword parameters of a cache key
MaxElapses == 2      \* number of clock advances in a run that watches expiry

\* ------------------------------------------------------- program constants
TaskTTL == 86400     \* setex(task_key, 86400, ...) and setex(results_key, 86400, ...)
DefaultCacheTTL == 3600

\* -------------------------------------------------------------- input sets
TaskIds == 1..MaxTasks
\* request bodies of POST /analyze-pr; the token "" stands for None
Requests ==
    {[repo_url |-> "https://github.com/a/b", pr_number |-> 7, github_token |-> ""],
     [repo_url |-> "https://github.com/c/d", pr_number |-> 9, github_token |-> "ghp_tok"]}
CachedResults == {"R0"}                    \* payloads cached by other clients of the Cache Manager
ExcMsgs == {"Failed to fetch PR data"}     \* str(e) of an exception raised in the unit
TickSteps == {10800, 86400}                \* seconds by which the clock advances
CleanupAges == {2}                         \* max_age_hours query parameter
\* the PRs whose analysis other clients of the Cache Manager cache
CachedKeys == {<<"https://github.com/a/b", 7>>}

PENDING == "pending"
PROCESSING == "processing"
COMPLETED == "completed"
FAILED == "failed"
CANCELLED == "cancelled"
TaskStatus == {PENDING, PROCESSING, COMPLETED, FAILED, CANCELLED}
Terminal == {COMPLETED, FAILED, CANCELLED}

\* ------------------------------------------------- analysis results (schemas)
\* Optional[...] fields hold <<>> for None and <<x>> for a value x.
IssueTypeValues == {"style", "bug", "performance", "security", "best_practice"}

\* a member of the str-Enum IssueType
IssueType(v) == [enum |-> "IssueType", value |-> v]

CodeIssue(type, line, description, suggestion, severity) ==
    [cls |-> "CodeIssue", type |-> type, line |-> line, description |-> description,
     suggestion |-> suggestion, severity |-> severity]

FileAnalysis(name, path, issues, language) ==
    [cls |-> "FileAnalysis", name |-> name, path |-> path, issues |-> issues,
     language |-> language]

AnalysisSummary(total_files, total_issues, critical_issues, files_with_issues, langs) ==
    [cls |-> "AnalysisSummary", total_files |-> total_files, total_issues |-> total_issues,
     critical_issues |-> critical_issues, files_with_issues |-> files_with_issues,
     languages_detected |-> langs]

AnalysisResults(files, summary, metadata) ==
    [cls |-> "AnalysisResults", files |-> files, summary |-> summary, metadata |-> metadata]

\* values of the metadata dict: str, int and None
PyStr(x) == [t |-> "str", s |-> x, n |-> 0]
PyInt(n) == [t |-> "int", s |-> "", n |-> n]
PyNone == [t |-> "none", s |-> "", n |-> 0]

\* the metadata built by CodeReviewAgent.analyze_code_changes
Metadata(ts, pr, repo) ==
    [analysis_timestamp |-> PyStr(ts), pr_number |-> PyInt(pr), repository |-> repo]

\* analysis results produced by the analyzer
Results ==
    {AnalysisResults(
        <<FileAnalysis("main.py", "src/main.py",
              <<CodeIssue(IssueType("bug"), 10, "null dereference", "check for None", <<>>),
                CodeIssue(IssueType("style"), 3, "line too long", "wrap", <<"low">>)>>,
              <<"python">>)>>,
        AnalysisSummary(1, 2, 0, 1, <<"python">>),
        <<Metadata("2024-01-01T10:00:00", 7, PyStr("a/b"))>>),
     AnalysisResults(<<>>, AnalysisSummary(0, 0, 0, 0, <<>>), <<>>)}

\* JSON values: strings, numbers and null; arrays are sequences and objects
\* are records of JSON values
JsonString(x) == [j |-> "string", v |-> x]
JsonNumber(n) == [j |-> "number", v |-> n]
JsonNull == [j |-> "null", v |-> ""]

\* BaseModel.model_dump(): nested models become dicts, field values are kept
\* (an IssueType stays a member of the Enum)
ModelDumpIssue(i) ==
    [type |-> i.type, line |-> i.line, description |-> i.description,
     suggestion |-> i.suggestion, severity |-> i.severity]

ModelDumpFile(f) ==
    [name |-> f.name, path |-> f.path,
     issues |-> [n \in 1..Len(f.issues) |-> ModelDumpIssue(f.issues[n])],
     language |-> f.language]

ModelDump(r) ==
    [files |-> [n \in 1..Len(r.files) |-> ModelDumpFile(r.files[n])],
     summary |-> [total_files |-> r.summary.total_files,
                  total_issues |-> r.summary.total_issues,
                  critical_issues |-> r.summary.critical_issues,
                  files_with_issues |-> r.summary.files_with_issues,
                  languages_detected |-> r.summary.languages_detected],
     metadata |-> r.metadata]

\* a serializer that writes None as the string "None"
DumpsOptStrNoneAsStr(o) == IF o = <<>> THEN JsonString("None") ELSE JsonString(o[1])

\* json.dumps: None is null, a str and a member of a str-Enum are strings,
\* an int is a number
DumpsOptStr(o) == IF o = <<>> THEN JsonNull ELSE JsonString(o[1])

DumpsPy(x) ==
    CASE x.t = "str" -> JsonString(x.s)
      [] x.t = "int" -> JsonNumber(x.n)
      [] OTHER -> JsonNull

DumpsIssue(i) ==
    [type |-> JsonString(i.type.value), line |-> JsonNumber(i.line),
     description |-> JsonString(i.description), suggestion |-> JsonString(i.suggestion),
     severity |-> DumpsOptStr(i.severity)]

DumpsFile(f) ==
    [name |-> JsonString(f.name), path |-> JsonString(f.path),
     issues |-> [n \in 1..Len(f.issues) |-> DumpsIssue(f.issues[n])],
     language |-> DumpsOptStr(f.language)]

JsonDumps(d) ==
    [files |-> [n \in 1..Len(d.files) |-> DumpsFile(d.files[n])],
     summary |-> [total_files |-> JsonNumber(d.summary.total_files),
                  total_issues |-> JsonNumber(d.summary.total_issues),
                  critical_issues |-> JsonNumber(d.summary.critical_issues),
                  files_with_issues |-> JsonNumber(d.summary.files_with_issues),
                  languages_detected |->
                      [n \in 1..Len(d.summary.languages_detected) |->
                          JsonString(d.summary.languages_detected[n])]],
     metadata |-> IF d.metadata = <<>> THEN <<>>
                  ELSE <<[k \in DOMAIN d.metadata[1] |-> DumpsPy(d.metadata[1][k])]>>]

\* json.loads: null is None, a string is a str, a number is an int
LoadsOpt(x) == IF x.j = "null" THEN <<>> ELSE <<x.v>>

LoadsPy(x) ==
    CASE x.j = "string" -> PyStr(x.v)
      [] x.j = "number" -> PyInt(x.v)
      [] OTHER -> PyNone

LoadsIssue(i) ==
    [type |-> i.type.v, line |-> i.line.v, description |-> i.description.v,
     suggestion |-> i.suggestion.v, severity |-> LoadsOpt(i.severity)]

LoadsFile(f) ==
    [name |-> f.name.v, path |-> f.path.v,
     issues |-> [n \in 1..Len(f.issues) |-> LoadsIssue(f.issues[n])],
     language |-> LoadsOpt(f.language)]

JsonLoads(x) ==
    [files |-> [n \in 1..Len(x.files) |-> LoadsFile(x.files[n])],
     summary |-> [total_files |-> x.summary.total_files.v,
                  total_issues |-> x.summary.total_issues.v,
                  critical_issues |-> x.summary.critical_issues.v,
                  files_with_issues |-> x.summary.files_with_issues.v,
                  languages_detected |->
                      [n \in 1..Len(x.summary.languages_detected) |->
                          x.summary.languages_detected[n].v]],
     metadata |-> IF x.metadata = <<>> THEN <<>>
                  ELSE <<[k \in DOMAIN x.metadata[1] |-> LoadsPy(x.metadata[1][k])]>>]

\* pydantic validation of CodeIssue.type: the str becomes the Enum member
ValidateIssueType(v) == IssueType(v)

\* AnalysisResults(**results_dict): the dicts become models again; a type
\* that is no IssueType value or a line <= 0 raises (the result is <<>>)
ValidIssue(i) == i.type \in IssueTypeValues /\ i.line > 0

ValidateIssue(i) ==
    CodeIssue(ValidateIssueType(i.type), i.line, i.description, i.suggestion, i.severity)

ValidateFile(f) ==
    FileAnalysis(f.name, f.path,
                 [n \in 1..Len(f.issues) |-> ValidateIssue(f.issues[n])], f.language)

ValidateResults(d) ==
    IF \A n \in 1..Len(d.files) : \A m \in 1..Len(d.files[n].issues) :
           ValidIssue(d.files[n].issues[m])
    THEN <<AnalysisResults(
              [n \in 1..Len(d.files) |-> ValidateFile(d.files[n])],
              AnalysisSummary(d.summary.total_files, d.summary.total_issues,
                              d.summary.critical_issues, d.summary.files_with_issues,
                              d.summary.languages_detected),
              d.metadata)>>
    ELSE <<>>

\* ---------------------------------------------------------- cache keys
\* the prefixes and keyword parameters of the key functions of CacheService
\* and of its tests.  ParamNames is in the order of Python's str comparison,
\* which is the order of json.dumps(sort_keys=True).
Prefixes == {"pr_analysis", "pr_data", "file_analysis", "test"}
ParamNames == <<"file_sha", "param1", "pr_number", "repo_url">>
ParamValues == {PyStr("value1"), PyStr("7"), PyInt(7), PyInt(123)}

NameRank(name) == CHOOSE i \in 1..Len(ParamNames) : ParamNames[i] = name

\* a call's **kwargs: names with values, in the order of the call site
Kwargs ==
    UNION {{p \in [1..n -> {<<ParamNames[i], v>> : i \in 1..Len(ParamNames),
                                                   v \in ParamValues}] :
               \A i, j \in 1..n : p[i][1] = p[j][1] => i = j} : n \in 0..MaxParams}

Digits == <<"0", "1", "2", "3", "4", "5", "6", "7", "8", "9">>

\* the decimal text json.dumps writes for a non-negative int
RECURSIVE IntText(_)
IntText(n) == IF n < 10 THEN Digits[n + 1] ELSE IntText(n \div 10) \o Digits[(n % 10) + 1]

\* the text json.dumps writes for a str or an int
ValueText(v) == IF v.t = "int" THEN IntText(v.n) ELSE "\"" \o v.s \o "\""

\* json.dumps without sort_keys: the items in the order of the call site
KeepOrder(kw) == kw

\* sort_keys=True: the items by name
SortKeys(kw) ==
    [i \in 1..Len(kw) |->
        CHOOSE item \in {kw[j] : j \in 1..Len(kw)} :
            Cardinality({j \in 1..Len(kw) : NameRank(kw[j][1]) < NameRank(item[1])}) = i - 1]

RECURSIVE ItemsText(_)
ItemsText(items) ==
    IF items = <<>> THEN ""
    ELSE "\"" \o items[1][1] \o "\": " \o ValueText(items[1][2])
            \o (IF Len(items) = 1 THEN "" ELSE ", " \o ItemsText(Tail(items)))

\* json.dumps(kwargs, sort_keys=True)
ParamString(kw) == "{" \o ItemsText(SortKeys(kw)) \o "}"

\* hashlib.md5(...).hexdigest(): a digest that tells every two texts apart
Md5HexDigest(text) == "md5<" \o text \o ">"

\* CacheService._generate_cache_key
GenerateCacheKey(prefix, kw) == prefix \o ":" \o Md5HexDigest(ParamString(kw))

NoTime == -1         \* a timestamp field that is not in the JSON record
NoMsg == ""          \* error_message not in the JSON record (None)
NoTask == 0          \* no task id

VARIABLES
    tasks,      \* task:<id>    -> task record, with the key's expiry time
    results,    \* results:<id> -> [val, exp]
    cache,      \* cache key -> [result, valid, exp]: the payload, whether the value is JSON
    units,      \* execution units enqueued by analyze_pr_task.delay, in order
    nextId,     \* next uuid4 to be drawn
    now,        \* clock, seconds
    ticks,      \* clock advances so far
    apc,        \* position of the API request handler
    a,          \* locals of the API request handler
    resp,       \* the HTTP response sent by the last step, NoResp if it sent none
    resWrites,  \* history: number of setex calls on results:<id>
    parked      \* create handlers of the other server processes, stopped before dispatch

vars == <<tasks, results, cache, units, nextId, now, ticks, apc, a, resp, resWrites, parked>>

\* ------------------------------------------------------------ store access
\* redis get: a list holding the value, empty when the key is absent
GetTask(t) == IF t \in DOMAIN tasks THEN <<tasks[t]>> ELSE <<>>

\* a setex that leaves task:<t> the only task key
SetTaskAlone(t, rec) == [k \in {t} |-> rec]

\* redis setex on task:<t>
SetTask(t, rec) == [k \in DOMAIN tasks \cup {t} |-> IF k = t THEN rec ELSE tasks[k]]

\* redis setex on results:<t>
SetResults(t, val) ==
    [k \in DOMAIN results \cup {t} |->
        IF k = t THEN [val |-> val, exp |-> now + TaskTTL] ELSE results[k]]

\* CacheService.get_pr_analysis_cache_key
AnalysisKey(repo, pr) ==
    GenerateCacheKey("pr_analysis", <<<<"repo_url", PyStr(repo)>>, <<"pr_number", PyInt(pr)>>>>)

\* CacheService.get_pr_data_cache_key
DataKey(repo, pr) ==
    GenerateCacheKey("pr_data", <<<<"repo_url", PyStr(repo)>>, <<"pr_number", PyInt(pr)>>>>)

\* a get_cache that hands out a value it could not decode
GetCacheKeepsUndecodable(key, up) ==
    IF ~up \/ key \notin DOMAIN cache THEN <<>> ELSE <<cache[key]>>

\* CacheService.get_cache: the decoded value; None when the key is absent,
\* and when the get or json.loads raises (up tells whether the store answers)
GetCache(key, up) ==
    IF ~up \/ key \notin DOMAIN cache \/ ~cache[key].valid THEN <<>> ELSE <<cache[key]>>

\* CacheService.get_cached_pr_analysis_result
GetCachedPrAnalysisResult(repo, pr, up) ==
    LET cached_data == GetCache(AnalysisKey(repo, pr), up) IN
    IF cached_data = <<>> THEN <<>> ELSE <<cached_data[1].result>>

\* TaskService.check_cached_result, the cache store answering
CheckCachedResult(repo, pr) == GetCachedPrAnalysisResult(repo, pr, TRUE)

\* the record written by create_task; born completed on a cache hit.  valid
\* tells that the stored string is JSON (json.loads does not raise).
NewTaskRecord(status, repo, pr, tok) ==
    [status |-> status, repo_url |-> repo, pr_number |-> pr, github_token |-> tok,
     created_at |-> now, updated_at |-> now,
     completed_at |-> IF status = COMPLETED THEN now ELSE NoTime,
     error_message |-> NoMsg, valid |-> TRUE, exp |-> now + TaskTTL]

\* an update that clears the error message when it is given none
UpdateRecordClearsMessage(rec, status, msg) ==
    [rec EXCEPT !.status = status,
                !.updated_at = now,
                !.completed_at = IF status = COMPLETED THEN now ELSE @,
                !.error_message = msg,
                !.exp = now + TaskTTL]

\* the record rewritten by update_task_status from the record it loaded;
\* `if error_message:` leaves None and the empty string out
UpdateRecord(rec, status, msg) ==
    [rec EXCEPT !.status = status,
                !.updated_at = now,
                !.completed_at = IF status = COMPLETED THEN now ELSE @,
                !.error_message = IF msg # "" THEN msg ELSE @,
                !.exp = now + TaskTTL]

\* an update that writes a record of its own when it finds none
UpdateTaskStatusUpsert(t, status, msg) ==
    IF GetTask(t) = <<>>
    THEN SetTask(t, UpdateRecord(NewTaskRecord(status, "", 0, ""), status, msg))
    ELSE IF ~GetTask(t)[1].valid THEN tasks
    ELSE SetTask(t, UpdateRecord(GetTask(t)[1], status, msg))

\* update_task_status: the store after the call; nothing is written when the
\* key is absent or its value is not JSON (the JSONDecodeError is logged)
UpdateTaskStatus(t, status, msg) ==
    IF GetTask(t) = <<>> \/ ~GetTask(t)[1].valid THEN tasks
    ELSE SetTask(t, UpdateRecord(GetTask(t)[1], status, msg))

\* a progress map that shows a failed task as half done
CalculateProgressFailedHalf(status) ==
    CASE status = PENDING -> 0
      [] status = PROCESSING -> 50
      [] status = COMPLETED -> 100
      [] status = FAILED -> 50
      [] OTHER -> 0

\* TaskService._calculate_progress
CalculateProgress(status) ==
    CASE status = PENDING -> 0
      [] status = PROCESSING -> 50
      [] status = COMPLETED -> 100
      [] status = FAILED -> 0
      [] status = CANCELLED -> 0
      [] OTHER -> 0

\* TaskService._get_status_message
GetStatusMessage(status) ==
    CASE status = PENDING -> "Task is queued for processing"
      [] status = PROCESSING -> "Analyzing pull request..."
      [] status = COMPLETED -> "Analysis completed successfully"
      [] status = FAILED -> "Analysis failed"
      [] status = CANCELLED -> "Task was cancelled"
      [] OTHER -> "Unknown status"

\* ---------------------------------------------------------- initial state
ALocals ==
    [op |-> "", id |-> NoTask, new |-> NoTask, repo |-> "", pr |-> 0, tok |-> "",
     keys |-> {}, store |-> <<>>, prev |-> <<>>, prefix |-> "", kwargs |-> <<>>, age |-> 0, cutoff |-> 0, checked |-> 0, cleaned |-> 0, stuck |-> <<>>]

NoResp ==
    [op |-> "", code |-> 0, error |-> "", task_id |-> NoTask, status |-> "",
     results |-> <<>>, hit |-> FALSE, revoke |-> "none",
     checked |-> 0, cleaned |-> 0, stuck |-> <<>>,
     progress |-> 0, message |-> "", error_message |-> NoMsg,
     created_at |-> NoTime, completed_at |-> NoTime, tasks |-> <<>>,
     status_filter |-> "", limit |-> 0, key |-> "",
     ok |-> FALSE, value |-> <<>>, repo_url |-> "", pr_number |-> 0,
     max_age_hours |-> 0, cutoff_time |-> 0, total |-> 0, status_counts |-> <<>>]

Init ==
    /\ tasks = <<>>
    /\ results = <<>>
    /\ cache = <<>>
    /\ units = <<>>
    /\ nextId = 1
    /\ now = 0
    /\ ticks = 0
    /\ apc = "idle"
    /\ a = ALocals
    /\ resp = NoResp
    /\ resWrites = [t \in TaskIds |-> 0]
    /\ parked = <<>>

\* ------------------------------------------------------------ API handlers
Response(op, code, error, tid, status) ==
    [NoResp EXCEPT !.op = op, !.code = code, !.error = error,
                   !.task_id = tid, !.status = status]

\* the handler returns: its locals are gone and the response is on the wire
Return(r) ==
    /\ resp' = r
    /\ apc' = "idle"
    /\ a' = ALocals

\* error code of the handler's catch-all `except Exception`
CatchAllError(op) ==
    CASE op = "create" -> "task_creation_failed"
      [] op = "retrigger" -> "retrigger_failed"
      [] op = "cancel" -> "cancel_failed"
      [] OTHER -> "cleanup_failed"

\* create_task(t, repo, pr, tok) called by the handler `op`, which goes on at
\* `cont` when the call returns; up tells whether the cache store answers.  On a cache hit the record is born completed
\* and store_task_results is called with the cached dict; its first statement
\* reads results.files, which a dict does not have, so it raises before any
\* Redis command and the handler's catch-all answers 500.
CreateTaskWhen(op, cont, old, t, repo, pr, tok, up) ==
    IF GetCachedPrAnalysisResult(repo, pr, up) # <<>>
    THEN /\ tasks' = SetTask(t, NewTaskRecord(COMPLETED, repo, pr, tok))
         /\ Return([Response(op, 500, CatchAllError(op), NoTask, "") EXCEPT !.hit = TRUE])
    ELSE /\ tasks' = SetTask(t, NewTaskRecord(PENDING, repo, pr, tok))
         /\ a' = [ALocals EXCEPT !.op = op, !.id = old, !.new = t,
                                 !.repo = repo, !.pr = pr, !.tok = tok]
         /\ apc' = cont
         /\ resp' = NoResp

\* create_task with the cache store answering
CreateTask(op, cont, old, t, repo, pr, tok) ==
    CreateTaskWhen(op, cont, old, t, repo, pr, tok, TRUE)

\* POST /analyze-pr: the uuid4 draw and create_task; up tells whether the
\* cache store answers
AnalyzePrWhen(repo, pr, tok, up) ==
    /\ apc = "idle"
    /\ nextId <= MaxTasks
    /\ nextId' = nextId + 1
    /\ CreateTaskWhen("create", "dispatch", NoTask, nextId, repo, pr, tok, up)
    /\ UNCHANGED <<results, cache, units, now, ticks, resWrites, parked>>

AnalyzePr(repo, pr, tok) == AnalyzePrWhen(repo, pr, tok, TRUE)

\* a retrigger that dispatches the original task id again
DelayTaskIdOfOriginal(op, old, new) == IF op = "retrigger" THEN old ELSE new

\* the task id handed to analyze_pr_task.delay by the handler `op`
DelayTaskId(op, old, new) == new

\* a dispatch that sends the message twice
EnqueueTwice(queue, unit) == Append(Append(queue, unit), unit)

\* a dispatch that drops the message when the queue holds one for the same
\* pull request
EnqueueOncePerPr(queue, unit) ==
    IF \E k \in 1..Len(queue) :
          queue[k].repo_url = unit.repo_url /\ queue[k].pr_number = unit.pr_number
    THEN queue
    ELSE Append(queue, unit)

\* delay puts one message on the queue
Enqueue(queue, unit) == Append(queue, unit)

\* analyze_pr_task.delay(...) and the handler's success response
Dispatch ==
    /\ apc = "dispatch"
    /\ units' = Enqueue(units,
           [task |-> DelayTaskId(a.op, a.id, a.new), repo_url |-> a.repo,
            pr_number |-> a.pr, github_token |-> a.tok,
            pc |-> "processing", res |-> <<>>, exc |-> "", cacheStore |-> ""])
    /\ Return(Response(a.op, 200, "", a.new, PENDING))
    /\ UNCHANGED <<tasks, results, cache, nextId, now, ticks, resWrites, parked>>

\* sequence s without its i-th element
Without(s, i) == [n \in 1..(Len(s) - 1) |-> IF n < i THEN s[n] ELSE s[n + 1]]

\* the server process handling a create request is stopped between create_task
\* and delay, and another server process takes requests
Preempt ==
    /\ apc = "dispatch"
    /\ a.op = "create"
    /\ parked' = Append(parked, a)
    /\ apc' = "idle"
    /\ a' = ALocals
    /\ resp' = NoResp
    /\ UNCHANGED <<tasks, results, cache, units, nextId, now, ticks, resWrites>>

\* a stopped create handler goes on
Resume(i) ==
    /\ apc = "idle"
    /\ i \in 1..Len(parked)
    /\ apc' = "dispatch"
    /\ a' = parked[i]
    /\ parked' = Without(parked, i)
    /\ resp' = NoResp
    /\ UNCHANGED <<tasks, results, cache, units, nextId, now, ticks, resWrites>>

\* a cancel that rejects completed tasks only, as retrigger does
NotCancellableCompletedOnly == {COMPLETED}

\* the statuses for which DELETE /cancel answers 400 task_not_cancellable
NotCancellable == {COMPLETED, FAILED, CANCELLED}

\* DELETE /cancel/{task_id}: the existence and state checks on
\* get_task_status, whose json.loads raises into the catch-all on a value that
\* is not JSON
CancelTask(t) ==
    /\ apc = "idle"
    /\ LET got == GetTask(t) IN
         IF got = <<>>
         THEN Return(Response("cancel", 404, "task_not_found", t, ""))
         ELSE IF ~got[1].valid
         THEN Return(Response("cancel", 500, CatchAllError("cancel"), t, ""))
         ELSE IF got[1].status \in NotCancellable
         THEN Return(Response("cancel", 400, "task_not_cancellable", t, got[1].status))
         ELSE /\ a' = [ALocals EXCEPT !.op = "cancel", !.id = t]
              /\ apc' = "cancel_update"
              /\ resp' = NoResp
    /\ UNCHANGED <<tasks, results, cache, units, nextId, now, ticks, resWrites, parked>>

\* the answer of DELETE /cancel once revoke returned or raised: the exception
\* is caught and logged
AfterRevoke(outcome, t) ==
    [Response("cancel", 200, "", t, CANCELLED) EXCEPT !.revoke = outcome]

\* DELETE /cancel/{task_id}, after the checks: update_task_status, then
\* celery_app.control.revoke(task_id, terminate=True) inside try/except, then
\* the success response.  The id passed to revoke is the application's task
\* id, not the id Celery gave to the message, so no enqueued or running unit
\* is affected, whether the call returns ("ok") or raises ("raises").
CancelUpdate(outcome) ==
    /\ apc = "cancel_update"
    /\ tasks' = UpdateTaskStatus(a.id, CANCELLED, "Task cancelled by user request")
    /\ Return(AfterRevoke(outcome, a.id))
    /\ UNCHANGED <<results, cache, units, nextId, now, ticks, resWrites, parked>>

\* a retrigger without the test on the status of the original task
NotRetriggerableNone == {}

\* the status for which POST /retrigger answers 400 task_already_completed
NotRetriggerable == {COMPLETED}

\* TaskService.get_task_data: the decoded record; None when the key is absent
\* and also when json.loads raises, which the method catches and logs
GetTaskData(t) == IF GetTask(t) = <<>> \/ ~GetTask(t)[1].valid THEN <<>> ELSE GetTask(t)

\* POST /retrigger/{task_id}: get_task_data, the checks, the uuid4 draw and
\* create_task with the parameters of the original task
RetriggerTask(t) ==
    /\ apc = "idle"
    /\ LET got == GetTaskData(t) IN
         IF got = <<>>
         THEN /\ Return(Response("retrigger", 404, "task_not_found", t, ""))
              /\ UNCHANGED <<tasks, nextId>>
         ELSE IF got[1].status \in NotRetriggerable
         THEN /\ Return(Response("retrigger", 400, "task_already_completed", t, got[1].status))
              /\ UNCHANGED <<tasks, nextId>>
         ELSE /\ nextId <= MaxTasks
              /\ nextId' = nextId + 1
              /\ CreateTask("retrigger", "retrigger_update", t, nextId,
                            got[1].repo_url, got[1].pr_number, got[1].github_token)
    /\ UNCHANGED <<results, cache, units, now, ticks, resWrites, parked>>

\* POST /retrigger/{task_id}, after create_task: the original task is marked
\* cancelled
RetriggerUpdate ==
    /\ apc = "retrigger_update"
    /\ tasks' = UpdateTaskStatus(a.id, CANCELLED, "Retriggered as task " \o ToString(a.new))
    /\ apc' = "dispatch"
    /\ a' = a
    /\ resp' = NoResp
    /\ UNCHANGED <<results, cache, units, nextId, now, ticks, resWrites, parked>>

\* POST /cleanup-stuck-tasks: the cutoff and the KEYS task:* scan.  observed
\* is history, not state of the program: the store as an observer of the
\* sweep saw it when the sweep began (<<>> when nobody observes).
CleanupSweep(h, observed) ==
    /\ apc = "idle"
    /\ a' = [ALocals EXCEPT !.op = "cleanup", !.age = h, !.cutoff = now - h * 3600,
                            !.keys = DOMAIN tasks, !.store = observed]
    /\ apc' = "cleanup_get"
    /\ resp' = NoResp
    /\ UNCHANGED <<tasks, results, cache, units, nextId, now, ticks, resWrites, parked>>

CleanupStuckTasks(h) == CleanupSweep(h, <<>>)

\* a batch loop that skips a key only when its value is gone
SkipsAbsentOnly(got) == got = <<>>

\* the batch loops of list_tasks and cleanup_stuck_tasks skip a key whose
\* value is gone (`if task_data_str`) or is not JSON (json.JSONDecodeError)
SkipsValue(got) == got = <<>> \/ ~got[1].valid

\* a sweep that also fails again the tasks that are failed already
IsStuckOrFailed(rec, cutoff) ==
    rec.status \in {PROCESSING, FAILED} /\ rec.created_at < cutoff

\* a sweep that looks at the age only
IsStuckAnyStatus(rec, cutoff) == rec.created_at < cutoff

\* the test of cleanup_stuck_tasks on a decoded record
IsStuck(rec, cutoff) == rec.status = PROCESSING /\ rec.created_at < cutoff

\* cleanup_stuck_tasks, one turn of the loop: the get of the next key (KEYS
\* returns them in no particular order; a key that is gone or whose value is
\* not JSON is skipped), or the result once the keys are done
CleanupGet ==
    /\ apc = "cleanup_get"
    /\ IF a.keys = {}
       THEN Return([Response("cleanup", 200, "", NoTask, "")
                       EXCEPT !.checked = a.checked, !.cleaned = a.cleaned,
                              !.stuck = a.stuck, !.max_age_hours = a.age,
                              !.cutoff_time = a.cutoff])
       ELSE \E k \in a.keys :
              LET got == GetTask(k)
                  rest == [a EXCEPT !.keys = @ \ {k}] IN
                /\ resp' = NoResp
                /\ IF SkipsValue(got)
                   THEN /\ a' = rest
                        /\ apc' = "cleanup_get"
                   ELSE IF IsStuck(got[1], a.cutoff)
                   THEN /\ a' = [rest EXCEPT !.checked = @ + 1, !.id = k]
                        /\ apc' = "cleanup_update"
                   ELSE /\ a' = [rest EXCEPT !.checked = @ + 1]
                        /\ apc' = "cleanup_get"
    /\ UNCHANGED <<tasks, results, cache, units, nextId, now, ticks, resWrites, parked>>

\* cleanup_stuck_tasks, the body of the `if`: the record found stuck is
\* marked failed and counted
CleanupUpdate ==
    /\ apc = "cleanup_update"
    /\ tasks' = UpdateTaskStatus(a.id, FAILED,
           "Task stuck in processing for more than " \o ToString(a.age) \o " hours")
    /\ a' = [a EXCEPT !.cleaned = @ + 1, !.stuck = Append(@, a.id), !.id = NoTask]
    /\ apc' = "cleanup_get"
    /\ resp' = NoResp
    /\ UNCHANGED <<results, cache, units, nextId, now, ticks, resWrites, parked>>

\* the orders in which KEYS task:* may return the keys
KeyOrders(keys) ==
    {o \in [1..Cardinality(keys) -> keys] :
        \A i, j \in 1..Cardinality(keys) : o[i] = o[j] => i = j}

\* list_tasks: the dicts appended for the keys in `order`; a value that is
\* not JSON is skipped, a status filter that is empty or None filters nothing
RECURSIVE Listed(_, _)
Listed(order, filter) ==
    IF order = <<>> THEN <<>>
    ELSE LET k == Head(order)
             rest == Listed(Tail(order), filter) IN
         IF SkipsValue(GetTask(k)) THEN rest
         ELSE IF filter # "" /\ tasks[k].status # filter THEN rest
         ELSE <<[task_id |-> k] @@ tasks[k]>> \o rest

\* a sort that puts the oldest task first
Older(x, y) == x.created_at < y.created_at

\* the order of tasks.sort(key=created_at, reverse=True)
Newer(x, y) == x.created_at > y.created_at

\* list.sort is stable, also with reverse=True: x goes before the first
\* element it is newer than
InsertNewestFirst(x, sorted) ==
    LET before == {i \in 1..Len(sorted) : \A j \in 1..i : ~Newer(x, sorted[j])}
        n == Cardinality(before) IN
    SubSeq(sorted, 1, n) \o <<x>> \o SubSeq(sorted, n + 1, Len(sorted))

RECURSIVE SortNewestFirst(_)
SortNewestFirst(list) ==
    IF list = <<>> THEN <<>>
    ELSE InsertNewestFirst(list[Len(list)], SortNewestFirst(SubSeq(list, 1, Len(list) - 1)))

\* tasks[:limit] for limit >= 0
Truncate(list, limit) == SubSeq(list, 1, IF limit < Len(list) THEN limit ELSE Len(list))

\* a tally that notes the statuses seen without counting them
RECURSIVE StatusSeen(_)
StatusSeen(list) ==
    IF list = <<>> THEN <<>>
    ELSE LET before == StatusSeen(SubSeq(list, 1, Len(list) - 1))
             task_status == list[Len(list)].status IN
         [s \in DOMAIN before \cup {task_status} |-> 1]

\* the route's loop over the returned tasks:
\* status_counts[task_status] = status_counts.get(task_status, 0) + 1
RECURSIVE StatusCounts(_)
StatusCounts(list) ==
    IF list = <<>> THEN <<>>
    ELSE LET before == StatusCounts(SubSeq(list, 1, Len(list) - 1))
             task_status == list[Len(list)].status IN
         [s \in DOMAIN before \cup {task_status} |->
             (IF s \in DOMAIN before THEN before[s] ELSE 0)
                 + (IF s = task_status THEN 1 ELSE 0)]

\* GET /tasks: TaskService.list_tasks and the response of the route
ListTasks(filter, limit) ==
    /\ apc = "idle"
    /\ \E order \in KeyOrders(DOMAIN tasks) :
          LET page == Truncate(SortNewestFirst(Listed(order, filter)), limit) IN
          Return([Response("list", 200, "", NoTask, "")
                     EXCEPT !.tasks = page,
                            !.total = Len(page),
                            !.status_counts = StatusCounts(page),
                            !.status_filter = filter,
                            !.limit = limit])
    /\ UNCHANGED <<tasks, results, cache, units, nextId, now, ticks, resWrites, parked>>

\* GET /status/{task_id}: TaskService.get_task_status, the 404, and the 500
\* of the catch-all when json.loads raises
GetTaskStatus(t) ==
    /\ apc = "idle"
    /\ LET got == GetTask(t) IN
         IF got = <<>>
         THEN Return(Response("status", 404, "task_not_found", t, ""))
         ELSE IF ~got[1].valid
         THEN Return(Response("status", 500, "status_check_failed", t, ""))
         ELSE Return([Response("status", 200, "", t, got[1].status)
                         EXCEPT !.progress = CalculateProgress(got[1].status),
                                !.message = GetStatusMessage(got[1].status),
                                !.created_at = got[1].created_at])
    /\ UNCHANGED <<tasks, results, cache, units, nextId, now, ticks, resWrites, parked>>

\* a results endpoint that answers every stored status with the record
NotCompletedNone == {}

\* the statuses for which GET /results answers 400 task_not_completed
NotCompleted == TaskStatus \ {COMPLETED}

\* TaskService.get_task_results on an existing record: the TaskResponse, with
\* the decoded Result Record when the status is completed and the key exists;
\* AnalysisResults(**results_dict) raising is the handler's 500
TaskResponseOf(t, rec) ==
    LET stored == IF rec.status = COMPLETED /\ t \in DOMAIN results
                  THEN <<ValidateResults(JsonLoads(results[t].val))>>
                  ELSE <<>>
    IN IF stored # <<>> /\ stored[1] = <<>>
       THEN Response("results", 500, "results_retrieval_failed", t, "")
       ELSE [Response("results", 200, "", t, rec.status)
                EXCEPT !.results = IF stored = <<>> THEN <<>> ELSE stored[1],
                       !.error_message = rec.error_message,
                       !.created_at = rec.created_at,
                       !.completed_at = rec.completed_at]

\* GET /results/{task_id}: TaskService.get_task_results, the 404, the 500 of
\* the catch-all when json.loads raises, and the 400
GetTaskResults(t) ==
    /\ apc = "idle"
    /\ LET got == GetTask(t) IN
         IF got = <<>>
         THEN Return(Response("results", 404, "task_not_found", t, ""))
         ELSE IF ~got[1].valid
         THEN Return(Response("results", 500, "results_retrieval_failed", t, ""))
         ELSE IF got[1].status \in NotCompleted
         THEN Return(Response("results", 400, "task_not_completed", t, got[1].status))
         ELSE Return(TaskResponseOf(t, got[1]))
    /\ UNCHANGED <<tasks, results, cache, units, nextId, now, ticks, resWrites, parked>>

\* ------------------------------------------------ Celery execution units
\* a unit that marks its task completed at the start
UnitUpdateCompletedFirst(u) ==
    CASE u.pc = "processing" -> [status |-> COMPLETED, msg |-> "", next |-> "analyze"]
      [] u.pc = "completed" -> [status |-> COMPLETED, msg |-> "", next |-> "done"]
      [] OTHER -> [status |-> FAILED, msg |-> u.exc, next |-> "raised"]

\* a unit whose except clause leaves the record as it is
UnitUpdateNoFailedWrite(u) ==
    CASE u.pc = "processing" -> [status |-> PROCESSING, msg |-> "", next |-> "analyze"]
      [] u.pc = "completed" -> [status |-> COMPLETED, msg |-> "", next |-> "done"]
      [] OTHER -> [status |-> PROCESSING, msg |-> "", next |-> "raised"]

\* the update_task_status call a unit makes at position pc
UnitUpdate(u) ==
    CASE u.pc = "processing" -> [status |-> PROCESSING, msg |-> "", next |-> "analyze"]
      [] u.pc = "completed" -> [status |-> COMPLETED, msg |-> "", next |-> "done"]
      [] OTHER -> [status |-> FAILED, msg |-> u.exc, next |-> "raised"]

\* str(e) of the exception a failing Redis command raises
RedisError == "Error 111 connecting to redis:6379. Connection refused."

\* a unit that goes on with the analysis when marking processing raises
AfterRaiseGoesOn(pc) == IF pc = "failed" THEN "raised" ELSE "analyze"

\* where the unit goes when update_task_status raises: into the except
\* clause, and out of it (the inner except swallows the second exception and
\* the first one is re-raised) when it already is there
AfterRaise(pc) == IF pc = "failed" THEN "raised" ELSE "failed"

\* update_task_status in the unit when its redis get raises: nothing is
\* written; the except clause keeps the first exception
WorkerUpdateRaises(k) ==
    /\ k \in 1..Len(units)
    /\ units[k].pc \in {"processing", "completed", "failed"}
    /\ units' = [units EXCEPT ![k].pc = AfterRaise(units[k].pc),
                              ![k].exc = IF units[k].pc = "failed" THEN @ ELSE RedisError]
    /\ resp' = NoResp
    /\ UNCHANGED <<tasks, results, cache, nextId, now, ticks, apc, a, resWrites, parked>>

\* update_task_status in the unit: processing at the start, completed at the
\* end, failed in the except clause (after which the exception is re-raised)
WorkerUpdate(k) ==
    /\ k \in 1..Len(units)
    /\ units[k].pc \in {"processing", "completed", "failed"}
    /\ LET u == units[k] IN
         /\ tasks' = UpdateTaskStatus(u.task, UnitUpdate(u).status, UnitUpdate(u).msg)
         /\ units' = [units EXCEPT ![k].pc = UnitUpdate(u).next]
    /\ resp' = NoResp
    /\ UNCHANGED <<results, cache, nextId, now, ticks, apc, a, resWrites, parked>>

\* get_pull_request_data, get_pull_request_diffs and analyze_code_changes:
\* they yield the analysis results, or one of them raises
WorkerAnalyze(k) ==
    /\ k \in 1..Len(units)
    /\ units[k].pc = "analyze"
    /\ \/ \E r \in Results : units' = [units EXCEPT ![k].res = <<r>>, ![k].pc = "store"]
       \/ \E m \in ExcMsgs : units' = [units EXCEPT ![k].exc = m, ![k].pc = "failed"]
    /\ resp' = NoResp
    /\ UNCHANGED <<tasks, results, cache, nextId, now, ticks, apc, a, resWrites, parked>>

\* the attributes of a TaskStatusResponse
TaskStatusResponseFields == {"task_id", "status", "progress", "message", "created_at"}

\* store_task_results: hasattr(task_data, 'repo_url') and hasattr(task_data, 'pr_number')
\* on the TaskStatusResponse that get_task_status returned
HasRepoAndPr == {"repo_url", "pr_number"} \subseteq TaskStatusResponseFields

\* CacheService.cache_pr_analysis_result / set_cache
SetCacheKey(key, r, ttl) ==
    [k \in DOMAIN cache \cup {key} |->
        IF k = key THEN [result |-> r, valid |-> TRUE, exp |-> now + ttl] ELSE cache[k]]

SetCache(repo, pr, r, ttl) == SetCacheKey(AnalysisKey(repo, pr), r, ttl)

\* a store_task_results that raises when the cache cannot be populated
StoreNextCacheFatal(primaryOk, cacheOk) ==
    IF primaryOk /\ cacheOk THEN "completed" ELSE "failed"

\* where the unit goes after store_task_results: on when it returned, into
\* the except clause when it raised, which it does when the setex of the
\* Result Record raised; set_cache catches what the cache store raises
StoreNext(primaryOk, cacheOk) == IF primaryOk THEN "completed" ELSE "failed"

\* store_task_results in the unit: the setex of results:<id>, then the
\* population of the PR-analysis cache guarded by the hasattr test.  primaryOk
\* tells whether the setex succeeds, cacheOk whether the cache store is up;
\* cacheStore keeps the latter as history.
WorkerStoreStep(k, primaryOk, cacheOk) ==
    /\ k \in 1..Len(units)
    /\ units[k].pc = "store"
    /\ LET u == units[k]
           got == GetTask(u.task) IN
         /\ results' = IF primaryOk
                       THEN SetResults(u.task, JsonDumps(ModelDump(u.res[1])))
                       ELSE results
         /\ resWrites' = IF primaryOk THEN [resWrites EXCEPT ![u.task] = @ + 1] ELSE resWrites
         /\ cache' = IF primaryOk /\ cacheOk /\ got # <<>> /\ HasRepoAndPr
                     THEN SetCache(got[1].repo_url, got[1].pr_number, ModelDump(u.res[1]), 3600)
                     ELSE cache
    /\ units' = [units EXCEPT ![k].pc = StoreNext(primaryOk, cacheOk),
                              ![k].exc = IF primaryOk THEN @ ELSE RedisError,
                              ![k].cacheStore = IF cacheOk THEN "up" ELSE "down"]
    /\ resp' = NoResp
    /\ UNCHANGED <<tasks, nextId, now, ticks, apc, a, parked>>

\* store_task_results with Redis and the cache store up
WorkerStore(k) == WorkerStoreStep(k, TRUE, TRUE)

\* ------------------------------------------------------- cache and clock
\* CacheService.cache_pr_analysis_result called by a client of the Cache
\* Manager, with the default TTL
CachePrAnalysisResult(repo, pr, r) ==
    /\ cache' = SetCache(repo, pr, r, DefaultCacheTTL)
    /\ cache' # cache
    /\ resp' = NoResp
    /\ UNCHANGED <<tasks, results, units, nextId, now, ticks, apc, a, resWrites, parked>>

\* the keys of a store that have not expired at time t
Live(store, t) == [k \in {x \in DOMAIN store : store[x].exp > t} |-> store[k]]

\* time passes, at most `most` times in a run; Redis drops the keys whose
\* TTL has run out
Elapse(d, most) ==
    /\ ticks < most
    /\ ticks' = ticks + 1
    /\ now' = now + d
    /\ tasks' = Live(tasks, now + d)
    /\ results' = Live(results, now + d)
    /\ cache' = Live(cache, now + d)
    /\ resp' = NoResp
    /\ UNCHANGED <<units, nextId, apc, a, resWrites, parked>>

Tick(d) == Elapse(d, MaxTicks)

Next ==
    \/ \E q \in Requests : AnalyzePr(q.repo_url, q.pr_number, q.github_token)
    \/ Dispatch
    \/ \E t \in TaskIds : CancelTask(t)
    \/ \E o \in {"ok", "raises"} : CancelUpdate(o)
    \/ \E t \in TaskIds : RetriggerTask(t)
    \/ RetriggerUpdate
    \/ \E h \in CleanupAges : CleanupStuckTasks(h)
    \/ CleanupGet
    \/ CleanupUpdate
    \/ \E k \in 1..MaxTasks : WorkerUpdate(k)
    \/ \E k \in 1..MaxTasks : WorkerAnalyze(k)
    \/ \E k \in 1..MaxTasks : WorkerStore(k)
    \/ \E key \in CachedKeys, r \in CachedResults :
          CachePrAnalysisResult(key[1], key[2], r)
    \/ \E d \in TickSteps : Tick(d)

Spec == Init /\ [][Next]_vars

\* the API with its query endpoints, for one pull request and without the
\* cleanup sweep
QueryRequests == {q \in Requests : q.pr_number = 7}

NextQuery ==
    \/ \E q \in QueryRequests : AnalyzePr(q.repo_url, q.pr_number, q.github_token)
    \/ Dispatch
    \/ \E t \in TaskIds : CancelTask(t)
    \/ \E o \in {"ok", "raises"} : CancelUpdate(o)
    \/ \E t \in TaskIds : RetriggerTask(t)
    \/ RetriggerUpdate
    \/ \E k \in 1..MaxTasks : WorkerUpdate(k)
    \/ \E k \in 1..MaxTasks : WorkerAnalyze(k)
    \/ \E k \in 1..MaxTasks : WorkerStore(k)
    \/ \E key \in CachedKeys, r \in CachedResults :
          CachePrAnalysisResult(key[1], key[2], r)
    \/ \E t \in TaskIds : GetTaskStatus(t)
    \/ \E t \in TaskIds : GetTaskResults(t)
    \/ \E d \in TickSteps : Tick(d)

SpecQuery == Init /\ [][NextQuery]_vars

\* the batch operations on a store given as a whole, with no other writer:
\* every key holds no value, a value that is not JSON, or a task record of
\* some status and age
StoreNow == 10800
StoreTimes == {0, 7200}
StoreAges == {1, 2}
StoreLimits == {0, 2, 3}

StoredRecord(status, created) ==
    [status |-> status, repo_url |-> "https://github.com/a/b", pr_number |-> 7,
     github_token |-> "", created_at |-> created, updated_at |-> created,
     completed_at |-> IF status = COMPLETED THEN created ELSE NoTime,
     error_message |-> IF status \in {FAILED, CANCELLED} THEN "Failed to fetch PR data"
                       ELSE NoMsg,
     valid |-> TRUE, exp |-> created + TaskTTL]

StoredValues ==
    {StoredRecord(st, c) : st \in TaskStatus, c \in StoreTimes}
        \cup {[StoredRecord(PROCESSING, 0) EXCEPT !.valid = FALSE]}

Stores ==
    UNION {[keys -> StoredValues] : keys \in SUBSET (1..MaxStored)}

InitStore ==
    /\ tasks \in Stores
    /\ results = <<>>
    /\ cache = <<>>
    /\ units = <<>>
    /\ nextId = MaxStored + 1
    /\ now = StoreNow
    /\ ticks = 0
    /\ apc = "idle"
    /\ a = ALocals
    /\ resp = NoResp
    /\ resWrites = [t \in TaskIds |-> 0]
    /\ parked = <<>>

\* sweeps of the store, one after the other
NextSweep ==
    \/ \E h \in StoreAges : CleanupSweep(h, tasks)
    \/ CleanupGet
    \/ CleanupUpdate

SpecSweep == InitStore /\ [][NextSweep]_vars

\* listings of the store
NextList ==
    \E f \in TaskStatus \cup {""}, n \in StoreLimits : ListTasks(f, n)

SpecList == InitStore /\ [][NextList]_vars

\* the batch operations on a store of which some key holds a value that is
\* not JSON
InitCorrupt ==
    /\ InitStore
    /\ \E t \in DOMAIN tasks : ~tasks[t].valid

NextBatch ==
    \/ \E h \in StoreAges : CleanupSweep(h, tasks)
    \/ CleanupGet
    \/ CleanupUpdate
    \/ \E f \in TaskStatus \cup {""}, n \in StoreLimits : ListTasks(f, n)

SpecBatch == InitCorrupt /\ [][NextBatch]_vars

\* the API and the units without the clock, every handler and every unit
\* going on until it ends
NextLive ==
    \/ \E q \in QueryRequests : AnalyzePr(q.repo_url, q.pr_number, q.github_token)
    \/ Dispatch
    \/ \E t \in TaskIds : CancelTask(t)
    \/ \E o \in {"ok", "raises"} : CancelUpdate(o)
    \/ \E t \in TaskIds : RetriggerTask(t)
    \/ RetriggerUpdate
    \/ \E h \in CleanupAges : CleanupStuckTasks(h)
    \/ CleanupGet
    \/ CleanupUpdate
    \/ \E k \in 1..MaxTasks : WorkerUpdate(k)
    \/ \E k \in 1..MaxTasks : WorkerAnalyze(k)
    \/ \E k \in 1..MaxTasks : WorkerStore(k)

SpecLive ==
    /\ Init /\ [][NextLive]_vars
    /\ WF_vars(Dispatch) /\ WF_vars(RetriggerUpdate)
    /\ \A k \in 1..MaxTasks :
          WF_vars(WorkerUpdate(k)) /\ WF_vars(WorkerAnalyze(k)) /\ WF_vars(WorkerStore(k))

\* tasks created with and without a token, their units, and the endpoints
\* that read the store
ListLimits == {1, 20}

NextToken ==
    \/ \E q \in Requests : AnalyzePr(q.repo_url, q.pr_number, q.github_token)
    \/ Dispatch
    \/ \E k \in 1..MaxTasks : WorkerUpdate(k)
    \/ \E k \in 1..MaxTasks : WorkerAnalyze(k)
    \/ \E k \in 1..MaxTasks : WorkerStore(k)
    \/ \E t \in TaskIds : GetTaskStatus(t)
    \/ \E t \in TaskIds : GetTaskResults(t)
    \/ \E f \in {"", PENDING}, n \in ListLimits : ListTasks(f, n)

SpecToken == Init /\ [][NextToken]_vars

\* sweeps run again: POST /cleanup-stuck-tasks with the max_age_hours of the
\* sweep that has just answered, arriving d seconds after that answer.  prev
\* is history: the cutoff of the sweep before.
AgainDelays == {0, 3600}

CleanupAgain(h, d) ==
    /\ apc = "idle"
    /\ resp.op = "cleanup" /\ resp.max_age_hours = h
    /\ ticks < MaxElapses
    /\ ticks' = ticks + 1
    /\ now' = now + d
    /\ tasks' = Live(tasks, now + d)
    /\ results' = Live(results, now + d)
    /\ cache' = Live(cache, now + d)
    /\ a' = [ALocals EXCEPT !.op = "cleanup", !.age = h, !.cutoff = now + d - h * 3600,
                            !.keys = DOMAIN tasks', !.store = tasks',
                            !.prev = <<[cutoff_time |-> resp.cutoff_time]>>]
    /\ apc' = "cleanup_get"
    /\ resp' = NoResp
    /\ UNCHANGED <<units, nextId, resWrites, parked>>

NextTwice ==
    \/ \E h \in StoreAges : CleanupSweep(h, tasks)
    \/ \E h \in StoreAges, d \in AgainDelays : CleanupAgain(h, d)
    \/ CleanupGet
    \/ CleanupUpdate

SpecTwice == InitStore /\ [][NextTwice]_vars

\* tasks that nobody but their own execution unit writes to: creation,
\* dispatch, the units, the results endpoint and the clock
WorkerSteps == {10800}

NextWorker ==
    \/ \E q \in QueryRequests : AnalyzePr(q.repo_url, q.pr_number, q.github_token)
    \/ Dispatch
    \/ \E k \in 1..MaxTasks : WorkerUpdate(k)
    \/ \E k \in 1..MaxTasks : WorkerAnalyze(k)
    \/ \E k \in 1..MaxTasks : WorkerStore(k)
    \/ \E t \in TaskIds : GetTaskResults(t)
    \/ \E d \in WorkerSteps : Tick(d)

SpecWorker == Init /\ [][NextWorker]_vars

\* create requests handled by several server processes at once, dispatch and
\* the units
NextCreate ==
    \/ \E q \in Requests : AnalyzePr(q.repo_url, q.pr_number, q.github_token)
    \/ Preempt
    \/ \E i \in 1..MaxTasks : Resume(i)
    \/ Dispatch
    \/ \E k \in 1..MaxTasks : WorkerUpdate(k)
    \/ \E k \in 1..MaxTasks : WorkerAnalyze(k)
    \/ \E k \in 1..MaxTasks : WorkerStore(k)

SpecCreate == Init /\ [][NextCreate]_vars

\* the units when Redis commands may fail: the get of update_task_status,
\* the setex of the Result Record, the cache store
NextFail ==
    \/ \E q \in QueryRequests : AnalyzePr(q.repo_url, q.pr_number, q.github_token)
    \/ Dispatch
    \/ \E k \in 1..MaxTasks : WorkerUpdate(k)
    \/ \E k \in 1..MaxTasks : WorkerUpdateRaises(k)
    \/ \E k \in 1..MaxTasks : WorkerAnalyze(k)
    \/ \E k \in 1..MaxTasks, p, c \in BOOLEAN : WorkerStoreStep(k, p, c)
    \/ \E d \in TickSteps : Tick(d)

SpecFail == Init /\ [][NextFail]_vars

\* the retention of the records of a task that only its unit writes to: the
\* clock moves by a second, or by a second less than the retention
RetentionSteps == {1, TaskTTL - 1}

NextRetention ==
    \/ \E q \in QueryRequests : AnalyzePr(q.repo_url, q.pr_number, q.github_token)
    \/ Dispatch
    \/ \E k \in 1..MaxTasks : WorkerUpdate(k)
    \/ \E k \in 1..MaxTasks : WorkerAnalyze(k)
    \/ \E k \in 1..MaxTasks : WorkerStore(k)
    \/ \E d \in RetentionSteps : Elapse(d, MaxElapses)

SpecRetention == Init /\ [][NextRetention]_vars

\* ------------------------------------------------------ the Cache Manager
\* the pull requests and payloads of the cache, and a cache given as a whole:
\* under each PR-analysis and PR-data key nothing, an entry, or a value that
\* is not JSON
CachePairs == {<<q.repo_url, q.pr_number>> : q \in Requests}
RepoNames == {<<"a", "b">>, <<"c", "d">>}
PrNumbers == {q.pr_number : q \in Requests}
DataTTL == 1800

\* the key of prefix `ns` for a pull request
PrKey(ns, repo, pr) == IF ns = "pr_data" THEN DataKey(repo, pr) ELSE AnalysisKey(repo, pr)

\* ttl or self.default_ttl for the analysis entry, ttl or 1800 for the data
PrTTL(ns) == IF ns = "pr_data" THEN DataTTL ELSE DefaultCacheTTL

Caches ==
    LET keys == {<<ns, p>> : ns \in {"pr_analysis", "pr_data"}, p \in CachePairs}
        drawn == UNION {[ks -> BOOLEAN] : ks \in SUBSET keys}
    IN {[k \in {PrKey(x[1], x[2][1], x[2][2]) : x \in DOMAIN d} |->
            LET x == CHOOSE y \in DOMAIN d : PrKey(y[1], y[2][1], y[2][2]) = k IN
            [result |-> "R0", valid |-> d[x], exp |-> PrTTL(x[1])]] : d \in drawn}

InitCache ==
    /\ tasks = <<>>
    /\ results = <<>>
    /\ cache \in Caches
    /\ units = <<>>
    /\ nextId = 1
    /\ now = 0
    /\ ticks = 0
    /\ apc = "idle"
    /\ a = ALocals
    /\ resp = NoResp
    /\ resWrites = [t \in TaskIds |-> 0]
    /\ parked = <<>>

\* what a Cache Manager call answers to its caller
CacheResponse(op, repo, pr) ==
    [NoResp EXCEPT !.op = op, !.repo_url = repo, !.pr_number = pr]

\* CacheService.get_cached_pr_analysis_result called by a client
CacheGet(repo, pr, up) ==
    /\ apc = "idle"
    /\ resp' = [CacheResponse("cache_get", repo, pr)
                   EXCEPT !.value = GetCachedPrAnalysisResult(repo, pr, up)]
    /\ UNCHANGED <<tasks, results, cache, units, nextId, now, ticks, apc, a, resWrites, parked>>

\* CacheService.cache_pr_analysis_result / cache_pr_data called by a client
\* without a ttl: set_cache returns what setex returns, False when it raises
CachePut(ns, repo, pr, r, up) ==
    /\ apc = "idle"
    /\ cache' = IF up THEN SetCacheKey(PrKey(ns, repo, pr), r, PrTTL(ns)) ELSE cache
    /\ resp' = [CacheResponse("cache_put", repo, pr) EXCEPT !.ok = up]
    /\ UNCHANGED <<tasks, results, units, nextId, now, ticks, apc, a, resWrites, parked>>

\* an invalidation that leaves the PR-data entry
InvalidatedKeysAnalysisOnly(repo, pr) == {AnalysisKey(repo, pr)}

\* the keys invalidate_pr_cache deletes
InvalidatedKeys(repo, pr) == {AnalysisKey(repo, pr), DataKey(repo, pr)}

\* DELETE /cache/pr/{owner}/{name}/{pr}: CacheService.invalidate_pr_cache on
\* the repository URL built from owner and name; delete_cache returns whether
\* the key existed, False when the delete raises
InvalidatePrCache(owner, name, pr, up) ==
    /\ apc = "idle"
    /\ LET repo == "https://github.com/" \o owner \o "/" \o name
           gone == IF up THEN InvalidatedKeys(repo, pr) ELSE {} IN
         /\ cache' = [k \in DOMAIN cache \ gone |-> cache[k]]
         /\ resp' = [CacheResponse("invalidate", repo, pr)
                        EXCEPT !.code = 200, !.ok = (gone \cap DOMAIN cache # {})]
    /\ UNCHANGED <<tasks, results, units, nextId, now, ticks, apc, a, resWrites, parked>>

\* GET /cache/stats: get_cache_stats returns {} when redis info raises
GetCacheStats(up) ==
    /\ apc = "idle"
    /\ resp' = [CacheResponse("cache_stats", "", 0) EXCEPT !.code = 200, !.ok = up]
    /\ UNCHANGED <<tasks, results, cache, units, nextId, now, ticks, apc, a, resWrites, parked>>

NextCache ==
    \/ \E p \in CachePairs, up \in BOOLEAN : CacheGet(p[1], p[2], up)
    \/ \E ns \in {"pr_analysis", "pr_data"}, p \in CachePairs, r \in CachedResults, up \in BOOLEAN :
          CachePut(ns, p[1], p[2], r, up)
    \/ \E n \in RepoNames, pr \in PrNumbers, up \in BOOLEAN : InvalidatePrCache(n[1], n[2], pr, up)
    \/ \E up \in BOOLEAN : GetCacheStats(up)
    \/ \E q \in Requests, up \in BOOLEAN :
          AnalyzePrWhen(q.repo_url, q.pr_number, q.github_token, up)
    \/ Dispatch

SpecCache == InitCache /\ [][NextCache]_vars

\* the Cache Manager and create requests while the cache store answers
NextInvalidate ==
    \/ \E p \in CachePairs : CacheGet(p[1], p[2], TRUE)
    \/ \E ns \in {"pr_analysis", "pr_data"}, p \in CachePairs, r \in CachedResults :
          CachePut(ns, p[1], p[2], r, TRUE)
    \/ \E n \in RepoNames, pr \in PrNumbers : InvalidatePrCache(n[1], n[2], pr, TRUE)
    \/ \E q \in Requests : AnalyzePr(q.repo_url, q.pr_number, q.github_token)
    \/ Dispatch

SpecInvalidate == InitCache /\ [][NextInvalidate]_vars

\* the lookups of a single task on a store given as a whole
NextRead ==
    \/ \E t \in 1..MaxStored : GetTaskStatus(t)
    \/ \E t \in 1..MaxStored : GetTaskResults(t)
    \/ \E t \in 1..MaxStored : RetriggerTask(t)

SpecRead == InitStore /\ [][NextRead]_vars

\* ------------------------------------------------ update_task_status alone
\* calls of TaskService.update_task_status on a store that holds one task
\* key at most, and possibly the Result Record of a task whose record is gone
UpdateMsgs == {NoMsg, "boom"}
UpdateSteps == {3600, 82800}

OrphanResults == (2 :> [val |-> JsonDumps(ModelDump(CHOOSE r \in Results : r.files = <<>>)),
                        exp |-> StoreNow + TaskTTL])

InitUpdate ==
    /\ tasks \in {s \in Stores : DOMAIN s \subseteq {1}}
    /\ results \in {<<>>, OrphanResults}
    /\ cache = <<>>
    /\ units = <<>>
    /\ nextId = MaxStored + 1
    /\ now = StoreNow
    /\ ticks = 0
    /\ apc = "idle"
    /\ a = ALocals
    /\ resp = NoResp
    /\ resWrites = [t \in TaskIds |-> 0]
    /\ parked = <<>>

\* await task_service.update_task_status(t, status, error_message=msg): the
\* call returns None; the response records the call and that it returned
UpdateStatusCall(t, status, msg) ==
    /\ apc = "idle"
    /\ tasks' = UpdateTaskStatus(t, status, msg)
    /\ resp' = [Response("update_task_status", 0, "", t, status) EXCEPT !.error_message = msg]
    /\ UNCHANGED <<results, cache, units, nextId, now, ticks, apc, a, resWrites, parked>>

NextUpdate ==
    \/ \E t \in 1..2, s \in TaskStatus, m \in UpdateMsgs : UpdateStatusCall(t, s, m)
    \/ \E d \in UpdateSteps : Tick(d)

SpecUpdate == InitUpdate /\ [][NextUpdate]_vars

\* ------------------------------------------------- cache key calls
\* a call _generate_cache_key(prefix, **kwargs) with its arguments in place
InitKey ==
    /\ tasks = <<>>
    /\ results = <<>>
    /\ cache = <<>>
    /\ units = <<>>
    /\ nextId = 1
    /\ now = 0
    /\ ticks = 0
    /\ apc = "key"
    /\ a \in {[ALocals EXCEPT !.op = "key", !.prefix = p, !.kwargs = kw] :
                p \in Prefixes, kw \in Kwargs}
    /\ resp = NoResp
    /\ resWrites = [t \in TaskIds |-> 0]
    /\ parked = <<>>

\* the call returns the key
GenerateCacheKeyCall ==
    /\ apc = "key"
    /\ apc' = "key_done"
    /\ resp' = [NoResp EXCEPT !.op = "key", !.key = GenerateCacheKey(a.prefix, a.kwargs)]
    /\ UNCHANGED <<tasks, results, cache, units, nextId, now, ticks, a, resWrites, parked>>

NextKey == GenerateCacheKeyCall

SpecKey == InitKey /\ [][NextKey]_vars

TypeOK ==
    /\ DOMAIN tasks \subseteq TaskIds
    /\ \A t \in DOMAIN tasks : tasks[t].status \in TaskStatus
    /\ DOMAIN results \subseteq TaskIds
    /\ Len(units) <= MaxTasks
    /\ nextId \in 1..(MaxTasks + 1)

\* ================================================================= claims
\* C1: once a task record's status is completed, failed or cancelled, no
\* later write changes that record's status to a different value.
C1_TerminalNeverOverwritten ==
    [][\A t \in DOMAIN tasks :
          (tasks[t].status \in Terminal /\ t \in DOMAIN tasks')
              => tasks'[t].status = tasks[t].status]_vars

\* C2: in every reachable state, completed_at is present in a task record
\* if and only if the record's status is completed.
C2_CompletedAtIffCompleted ==
    \A t \in DOMAIN tasks :
        (tasks[t].completed_at # NoTime) <=> (tasks[t].status = COMPLETED)

\* C3: in every reachable state, a task record carries an error_message only
\* if its status is failed or cancelled.
C3_ErrorMessageOnlyFailedOrCancelled ==
    \A t \in DOMAIN tasks :
        tasks[t].error_message # NoMsg => tasks[t].status \in {FAILED, CANCELLED}

\* C4: in every reachable state, results:<id> exists if and only if the task
\* record is or has been completed (completed_at, once set, stays in the
\* record, so it tells that the record has been completed).
C4_ResultIffCompleted ==
    \A t \in TaskIds :
        (t \in DOMAIN results) <=> (t \in DOMAIN tasks /\ tasks[t].completed_at # NoTime)

\* C5: results:<id> is written at most once for each task id, and its
\* contents never change while it exists.
C5_ResultsWriteOnce ==
    [][/\ \A t \in TaskIds : resWrites'[t] <= 1
       /\ \A t \in DOMAIN results :
             t \in DOMAIN results' => results'[t].val = results[t].val]_vars

\* C5 witness: a unit has run to its end and the Result Record it wrote exists.
C5_Witness ==
    \E k \in 1..Len(units) :
        /\ units[k].pc = "done"
        /\ units[k].task \in DOMAIN results
        /\ resWrites[units[k].task] = 1

\* C6: when store_task_results returns in the unit of a task whose record
\* exists, the PR-analysis cache holds an entry for the task's (repo, PR).
C6_StorePopulatesCache ==
    [][\A k \in 1..Len(units) :
          (/\ units[k].pc = "store"
           /\ units'[k].pc = "completed"
           /\ units[k].task \in DOMAIN tasks)
              => AnalysisKey(tasks[units[k].task].repo_url,
                             tasks[units[k].task].pr_number) \in DOMAIN cache']_vars

\* C7: a create request that finds the PR-analysis cache populated answers
\* 200 with status completed and the cached results, and the new task has a
\* completed record and the cached payload as its Result Record.
C7_CreateOnCacheHit ==
    (resp.op = "create" /\ resp.hit)
        => /\ resp.code = 200
           /\ resp.status = COMPLETED
           /\ resp.results # <<>>
           /\ resp.task_id \in DOMAIN tasks
           /\ tasks[resp.task_id].status = COMPLETED
           /\ resp.task_id \in DOMAIN results

\* C8: every task id has at most one execution unit enqueued; a create
\* request that misses the cache persists a pending record under a fresh id,
\* then enqueues exactly one unit bound to that id and answers with the id
\* and status pending; a create request that hits the cache enqueues none,
\* and nothing but a handler's dispatch enqueues a unit.
C8_DispatchExactlyOnce ==
    [][/\ \A i, j \in 1..Len(units') : units'[i].task = units'[j].task => i = j
       /\ (apc = "idle" /\ apc' = "dispatch" /\ a'.op = "create")
             => /\ a'.new \notin DOMAIN tasks
                /\ a'.new \in DOMAIN tasks'
                /\ tasks'[a'.new].status = PENDING
                /\ units' = units
       /\ (apc = "dispatch" /\ apc' = "idle" /\ a.op = "create")
             => /\ Len(units') = Len(units) + 1
                /\ SubSeq(units', 1, Len(units)) = units
                /\ units'[Len(units')].task = a.new
                /\ resp'.op = "create" /\ resp'.code = 200
                /\ resp'.task_id = a.new /\ resp'.status = PENDING
       /\ (resp'.op = "create" /\ resp'.hit) => units' = units
       /\ Len(units') # Len(units) => (apc = "dispatch" /\ apc' = "idle")]_vars

\* C8 witness: a create request has just been answered pending and its unit
\* is on the queue.
C8_Witness ==
    /\ resp.op = "create" /\ resp.code = 200 /\ resp.status = PENDING
    /\ \E k \in 1..Len(units) : units[k].task = resp.task_id
    /\ resp.task_id \in DOMAIN tasks

\* C9: a cancel request for a task whose stored status is completed, failed
\* or cancelled answers 400 task_not_cancellable, one for an unknown id
\* answers 404 task_not_found, and in both cases the store and the queue are
\* left unchanged and no revoke is issued.
C9_CancelRejectsTerminal ==
    [][\A t \in TaskIds :
          (CancelTask(t) /\ (t \in DOMAIN tasks => tasks[t].status \in Terminal))
              => /\ resp'.op = "cancel"
                 /\ resp'.code = IF t \in DOMAIN tasks THEN 400 ELSE 404
                 /\ resp'.error = IF t \in DOMAIN tasks THEN "task_not_cancellable"
                                                        ELSE "task_not_found"
                 /\ resp'.revoke = "none"
                 /\ apc' = "idle"
                 /\ UNCHANGED <<tasks, results, cache, units>>]_vars

\* C9 witness: a cancel request for a failed task has just been rejected.
C9_Witness ==
    /\ resp.op = "cancel" /\ resp.code = 400
    /\ resp.task_id \in DOMAIN tasks
    /\ tasks[resp.task_id].status = FAILED

\* C10: a cancel request for a task found pending or processing writes
\* status cancelled with a non-empty reason to the task record and answers
\* success with status cancelled, whatever the revoke call does.
C10_CancelAlwaysWrites ==
    [][(apc = "cancel_update" /\ apc' = "idle")
          => /\ resp'.code = 200 /\ resp'.status = CANCELLED
             /\ a.id \in DOMAIN tasks'
             /\ tasks'[a.id].status = CANCELLED
             /\ tasks'[a.id].error_message # NoMsg]_vars

\* C10, the part that does not depend on the record outliving the checks:
\* the answer is success with status cancelled whatever the revoke call
\* does, the record is written cancelled with a non-empty reason when
\* update_task_status still finds it, and nothing is written otherwise.
C10_CancelIndependentOfRevoke ==
    [][(apc = "cancel_update" /\ apc' = "idle")
          => /\ resp'.op = "cancel" /\ resp'.code = 200
             /\ resp'.status = CANCELLED /\ resp'.task_id = a.id
             /\ a.id \in DOMAIN tasks
                   => /\ a.id \in DOMAIN tasks'
                      /\ tasks'[a.id].status = CANCELLED
                      /\ tasks'[a.id].error_message # NoMsg
             /\ a.id \notin DOMAIN tasks => tasks' = tasks]_vars

\* C10 witness: a cancel has just been answered with success although the
\* revoke call raised, and the record is cancelled with its reason.
C10_Witness ==
    /\ resp.op = "cancel" /\ resp.code = 200 /\ resp.revoke = "raises"
    /\ resp.task_id \in DOMAIN tasks
    /\ tasks[resp.task_id].status = CANCELLED
    /\ tasks[resp.task_id].error_message = "Task cancelled by user request"

\* C11: a retrigger of an existing task t1 that is not completed creates a
\* pending task t2 with t1's repository, PR number and token, marks t1
\* cancelled with a message that names t2, enqueues exactly one unit for t2
\* and answers t2 and pending; when it answers, t1 is cancelled and t2 is
\* pending.
C11_Retrigger ==
    [][/\ \A t \in TaskIds :
             (RetriggerTask(t) /\ t \in DOMAIN tasks /\ tasks[t].status # COMPLETED)
                 => /\ apc' = "retrigger_update"
                    /\ a'.id = t
                    /\ a'.new \notin DOMAIN tasks
                    /\ a'.new \in DOMAIN tasks'
                    /\ tasks'[a'.new].status = PENDING
                    /\ tasks'[a'.new].repo_url = tasks[t].repo_url
                    /\ tasks'[a'.new].pr_number = tasks[t].pr_number
                    /\ tasks'[a'.new].github_token = tasks[t].github_token
       /\ (apc = "retrigger_update" /\ apc' = "dispatch")
             => /\ a.id \in DOMAIN tasks'
                /\ tasks'[a.id].status = CANCELLED
                /\ tasks'[a.id].error_message = "Retriggered as task " \o ToString(a.new)
       /\ (apc = "dispatch" /\ apc' = "idle" /\ a.op = "retrigger")
             => /\ Len(units') = Len(units) + 1
                /\ units'[Len(units')].task = a.new
                /\ \A k \in 1..Len(units) : units[k].task # a.new
                /\ resp'.code = 200 /\ resp'.task_id = a.new /\ resp'.status = PENDING
                /\ a.id \in DOMAIN tasks' /\ tasks'[a.id].status = CANCELLED
                /\ a.new \in DOMAIN tasks' /\ tasks'[a.new].status = PENDING]_vars

\* C12: a retrigger of an unknown id answers 404 task_not_found, one of a
\* completed task answers 400 task_already_completed; in both cases no
\* record is created or changed, no id is drawn and no unit is enqueued.
C12_RetriggerRejections ==
    [][\A t \in TaskIds :
          (RetriggerTask(t) /\ (t \in DOMAIN tasks => tasks[t].status = COMPLETED))
              => /\ resp'.op = "retrigger"
                 /\ resp'.code = IF t \in DOMAIN tasks THEN 400 ELSE 404
                 /\ resp'.error = IF t \in DOMAIN tasks THEN "task_already_completed"
                                                        ELSE "task_not_found"
                 /\ apc' = "idle"
                 /\ UNCHANGED <<tasks, results, cache, units, nextId>>]_vars

\* C12 witness: a retrigger of a completed task has just been rejected.
C12_Witness ==
    /\ resp.op = "retrigger" /\ resp.code = 400
    /\ resp.task_id \in DOMAIN tasks
    /\ tasks[resp.task_id].status = COMPLETED

\* C17: the cleanup sweep marks failed only tasks that have been in
\* processing for at least max_age_hours.  A record in processing was last
\* written when it entered processing (every later write changes the
\* status), so its updated_at is the time it entered.
C17_CleanupOnlyLongProcessing ==
    [][(/\ apc = "cleanup_update" /\ apc' = "cleanup_get"
        /\ a.id \in DOMAIN tasks
        /\ tasks[a.id].status = PROCESSING)
           => now - tasks[a.id].updated_at >= a.age * 3600]_vars

\* C13: a status or results query for an unknown id answers 404
\* task_not_found; a results query for an existing task answers 400
\* task_not_completed when the status is pending, processing, failed or
\* cancelled and 200 with status completed when it is completed; a query
\* writes nothing.
C13_QueryOutcomes ==
    [][\A t \in TaskIds :
          /\ (GetTaskStatus(t) \/ GetTaskResults(t))
                => /\ UNCHANGED <<tasks, results, cache, units>>
                   /\ t \notin DOMAIN tasks
                         => resp'.code = 404 /\ resp'.error = "task_not_found"
          /\ (GetTaskStatus(t) /\ t \in DOMAIN tasks) => resp'.code = 200
          /\ (GetTaskResults(t) /\ t \in DOMAIN tasks)
                => IF tasks[t].status = COMPLETED
                   THEN resp'.code = 200 /\ resp'.status = COMPLETED
                   ELSE resp'.code = 400 /\ resp'.error = "task_not_completed"]_vars

\* C13 witness: the results of a failed task have just been refused.
C13_Witness ==
    /\ resp.op = "results" /\ resp.code = 400
    /\ resp.task_id \in DOMAIN tasks
    /\ tasks[resp.task_id].status = FAILED

\* C14: the answer to a status or results query for a task that the unit
\* recorded failed with error message m carries m.
C14_FailureReasonPolled ==
    (/\ resp.op \in {"status", "results"}
     /\ resp.task_id \in DOMAIN tasks
     /\ tasks[resp.task_id].status = FAILED
     /\ tasks[resp.task_id].error_message # NoMsg)
        => \/ resp.error_message = tasks[resp.task_id].error_message
           \/ resp.message = tasks[resp.task_id].error_message
           \/ resp.error = tasks[resp.task_id].error_message

\* C15: a status query for an existing task reports the stored status and
\* progress 0 for pending, 50 for processing, 100 for completed, 0 for
\* failed and 0 for cancelled.
C15_ProgressOfStatus ==
    (resp.op = "status" /\ resp.code = 200)
        => /\ resp.task_id \in DOMAIN tasks
           /\ resp.status = tasks[resp.task_id].status
           /\ resp.progress =
                 CASE resp.status = "pending" -> 0
                   [] resp.status = "processing" -> 50
                   [] resp.status = "completed" -> 100
                   [] resp.status = "failed" -> 0
                   [] resp.status = "cancelled" -> 0

\* C15 witness: a failed task that is three hours old has just been
\* reported failed with progress 0.
C15_Witness ==
    /\ resp.op = "status" /\ resp.code = 200
    /\ resp.status = FAILED /\ resp.progress = 0
    /\ now - resp.created_at >= 10800

\* results of every shape of the schema: no file, a file without issues, a
\* file with an issue of each type, with and without the optional fields
RoundTripIssues ==
    {CodeIssue(IssueType(v), 1, "d", "s", sev) :
        v \in IssueTypeValues, sev \in {<<>>, <<"high">>}}

RoundTripFiles ==
    {FileAnalysis("f.py", "src/f.py", issues, lang) :
        issues \in {<<>>} \cup {<<i>> : i \in RoundTripIssues},
        lang \in {<<>>, <<"python">>}}

RoundTripResults ==
    {AnalysisResults(files, AnalysisSummary(Len(files), 1, 0, 1, <<"python">>), md) :
        files \in {<<>>} \cup {<<f>> : f \in RoundTripFiles},
        md \in {<<>>, <<Metadata("2024-01-01T10:00:00", 7, PyStr("a/b"))>>,
                 <<Metadata("", 0, PyNone)>>}}

\* C20: once a unit has stored the result R of a task and marked it
\* completed, a results query for the task, while it is completed, answers
\* completed with a Result Record equal to R; and the conversions such a
\* query and the store before it apply (model_dump, json.dumps, json.loads,
\* validation) return every result of the schema unchanged.
C20_ResultRoundTrip ==
    /\ \A k \in 1..Len(units) :
          (/\ resp.op = "results" /\ resp.task_id = units[k].task
           /\ units[k].pc = "done"
           /\ units[k].task \in DOMAIN tasks
           /\ tasks[units[k].task].status = COMPLETED)
              => /\ resp.code = 200 /\ resp.status = COMPLETED
                 /\ resp.results = units[k].res
    /\ (resp.op = "results" /\ resp.results # <<>>)
          => \A r \in RoundTripResults \cup Results :
                ValidateResults(JsonLoads(JsonDumps(ModelDump(r)))) = <<r>>

\* C20 witness: the stored result of a completed task has just been returned.
C20_Witness ==
    /\ resp.op = "results" /\ resp.code = 200 /\ resp.results # <<>>
    /\ \E k \in 1..Len(units) :
          /\ units[k].task = resp.task_id /\ units[k].pc = "done"
          /\ Len(units[k].res[1].files) > 0

\* the tasks of a store that a sweep with threshold h has to fail: in
\* processing and created before now - h hours
StuckIn(store, h) ==
    {t \in DOMAIN store :
        /\ store[t].valid
        /\ store[t].status = "processing"
        /\ store[t].created_at < now - h * 3600}

\* C16: a sweep with no concurrent writer marks failed, with a non-empty
\* error message, exactly the processing tasks created before the cutoff,
\* leaves every other record as it was, and reports cleaned_count equal to
\* their number, one stuck_tasks entry for each, and checked_count equal to
\* the number of decodable records.
C16_StuckReclamation ==
    [][(apc = "cleanup_get" /\ apc' = "idle")
          => LET before == a.store
                 stuck == StuckIn(before, a.age) IN
             /\ resp'.op = "cleanup" /\ resp'.code = 200
             /\ resp'.cleaned = Cardinality(stuck)
             /\ Len(resp'.stuck) = Cardinality(stuck)
             /\ {resp'.stuck[i] : i \in 1..Len(resp'.stuck)} = stuck
             /\ resp'.checked = Cardinality({t \in DOMAIN before : before[t].valid})
             /\ DOMAIN tasks' = DOMAIN before
             /\ \A t \in stuck :
                   /\ tasks'[t].status = FAILED
                   /\ tasks'[t].error_message # NoMsg
                   /\ tasks'[t].created_at = before[t].created_at
             /\ \A t \in DOMAIN before \ stuck : tasks'[t] = before[t]]_vars

\* C16 witness: a sweep of a store of three records has just failed two
\* processing tasks and left a younger processing task alone.
C16_Witness ==
    /\ resp.op = "cleanup" /\ resp.cleaned = 2 /\ resp.checked = 3
    /\ \E t \in DOMAIN tasks : tasks[t].status = PROCESSING /\ tasks[t].valid

\* C18: the listing holds only decodable records of the store whose status
\* is the filter (any status without a filter), each once, newest first, and
\* is the first min(limit, number of matching records) of that order.
C18_Listing ==
    (resp.op = "list")
        => LET l == resp.tasks
               matching == {t \in DOMAIN tasks :
                              /\ tasks[t].valid
                              /\ resp.status_filter # "" => tasks[t].status = resp.status_filter}
               listed == {l[i].task_id : i \in 1..Len(l)} IN
           /\ listed \subseteq matching
           /\ \A i \in 1..Len(l) :
                 /\ l[i].status = tasks[l[i].task_id].status
                 /\ l[i].created_at = tasks[l[i].task_id].created_at
           /\ \A i, j \in 1..Len(l) : l[i].task_id = l[j].task_id => i = j
           /\ \A i, j \in 1..Len(l) : i < j => l[i].created_at >= l[j].created_at
           /\ Len(l) = IF resp.limit < Cardinality(matching) THEN resp.limit
                        ELSE Cardinality(matching)
           /\ \A t \in matching \ listed :
                 \A i \in 1..Len(l) : l[i].created_at >= tasks[t].created_at

\* C18 witness: of a pending task and two completed tasks of different ages,
\* the listing of the completed ones with limit 3 holds the two, newest
\* first.
C18_Witness ==
    /\ resp.op = "list" /\ resp.status_filter = COMPLETED /\ resp.limit = 3
    /\ Len(resp.tasks) = 2
    /\ resp.tasks[1].created_at > resp.tasks[2].created_at
    /\ \E t \in DOMAIN tasks : tasks[t].status = PENDING

\* the reorderings of a call's keyword parameters
Reorderings(kw) ==
    {q \in Kwargs : /\ Len(q) = Len(kw)
                    /\ {q[i] : i \in 1..Len(q)} = {kw[i] : i \in 1..Len(kw)}}

\* the calls with the same parameter names of which one has another value
DifferInValue(kw) ==
    {q \in Kwargs : /\ {q[i][1] : i \in 1..Len(q)} = {kw[i][1] : i \in 1..Len(kw)}
                    /\ {q[i] : i \in 1..Len(q)} # {kw[i] : i \in 1..Len(kw)}}

\* C19: the key of a call is the key of every reordering of its parameters,
\* it is the prefix, a colon and a digest, it differs from the key of the
\* same parameters under any other prefix, and it differs from the key of
\* the same names with another value.
C19_KeyDeterminism ==
    (resp.op = "key")
        => /\ \A q \in Reorderings(a.kwargs) : GenerateCacheKey(a.prefix, q) = resp.key
           /\ \E kw \in Kwargs :
                 resp.key = a.prefix \o ":" \o Md5HexDigest(ParamString(kw))
           /\ \A p \in Prefixes \ {a.prefix} : GenerateCacheKey(p, a.kwargs) # resp.key
           /\ \A q \in DifferInValue(a.kwargs) : GenerateCacheKey(a.prefix, q) # resp.key

\* C19 witness: the key of a call that names repo_url before pr_number is the
\* key of the sorted parameters.
C19_Witness ==
    /\ resp.op = "key"
    /\ a.prefix = "pr_analysis"
    /\ a.kwargs = <<<<"repo_url", PyStr("value1")>>, <<"pr_number", PyInt(123)>>>>
    /\ resp.key = "pr_analysis:md5<{\"pr_number\": 123, \"repo_url\": \"value1\"}>"


\* C23: a call of update_task_status for a task id with no record, whatever
\* the status and the message, returns and leaves the task records, the
\* Result Records and the cache as they were; no record appears under the id.
C23_UpdateAbsentIsNoOp ==
    [][\A t \in 1..2, s \in TaskStatus, m \in UpdateMsgs :
          (UpdateStatusCall(t, s, m) /\ t \notin DOMAIN tasks)
              => /\ tasks' = tasks /\ results' = results /\ cache' = cache
                 /\ t \notin DOMAIN tasks'
                 /\ resp'.op = "update_task_status" /\ resp'.code = 0]_vars

\* C23 witness: update_task_status(1, completed) has returned after the
\* record of task 1 expired; the Result Record of task 2, whose record is gone
\* too, is still stored.
C23_Witness ==
    /\ resp.op = "update_task_status" /\ resp.task_id = 1 /\ resp.status = COMPLETED
    /\ ticks = 1
    /\ 1 \notin DOMAIN tasks
    /\ 2 \in DOMAIN results

\* C24: a call update_task_status(t, s) without a message, for a task whose
\* status is the terminal status s, leaves the status s and every field but
\* updated_at (and completed_at when s is completed) as it was.
C24_TerminalUpdateIdempotent ==
    [][\A t \in 1..2, s \in Terminal :
          (/\ UpdateStatusCall(t, s, NoMsg)
           /\ t \in DOMAIN tasks /\ tasks[t].valid /\ tasks[t].status = s)
              => /\ t \in DOMAIN tasks'
                 /\ tasks'[t].status = s
                 /\ [tasks'[t] EXCEPT !.updated_at = 0, !.completed_at = 0, !.exp = 0]
                      = [tasks[t] EXCEPT !.updated_at = 0, !.completed_at = 0, !.exp = 0]
                 /\ s # COMPLETED => tasks'[t].completed_at = tasks[t].completed_at]_vars

\* C24 witness: a failed task with its message has been updated to failed
\* again, later than its last write.
C24_Witness ==
    /\ resp.op = "update_task_status" /\ resp.task_id = 1
    /\ resp.status = FAILED /\ resp.error_message = NoMsg
    /\ 1 \in DOMAIN tasks
    /\ tasks[1].status = FAILED
    /\ tasks[1].error_message = "Failed to fetch PR data"
    /\ tasks[1].updated_at > tasks[1].created_at


\* C28: when the value stored under task:<id> is not JSON, the status lookup,
\* the results lookup and the retrigger of that id each answer 500, not 404,
\* and the value stays as it was.
C28_DecodeFailureIsInternalError ==
    [][\A t \in 1..MaxStored :
          (/\ GetTaskStatus(t) \/ GetTaskResults(t) \/ RetriggerTask(t)
           /\ t \in DOMAIN tasks /\ ~tasks[t].valid)
              => /\ resp'.code = 500
                 /\ tasks' = tasks]_vars


\* the statuses a task record goes through under its own unit
WorkerTransitions ==
    {<<PENDING, PROCESSING>>, <<PROCESSING, COMPLETED>>, <<PROCESSING, FAILED>>}

\* C21: with no writer but its own unit, a task record is created pending
\* and changes status only from pending to processing and from processing to
\* completed (or failed); the Result Record is written while the status is
\* processing and is there when completed is written; and GET /results after
\* the unit ended normally answers completed with the result the unit stored.
C21_WorkerStepOrder ==
    [][/\ \A t \in TaskIds :
            /\ (t \notin DOMAIN tasks /\ t \in DOMAIN tasks')
                  => tasks'[t].status = PENDING /\ t \notin DOMAIN results
            /\ (t \in DOMAIN tasks /\ t \in DOMAIN tasks'
                   /\ tasks'[t].status # tasks[t].status)
                  => /\ <<tasks[t].status, tasks'[t].status>> \in WorkerTransitions
                     /\ tasks'[t].status = COMPLETED => t \in DOMAIN results
            /\ (resWrites'[t] # resWrites[t])
                  => /\ t \in DOMAIN tasks /\ tasks[t].status = PROCESSING
                     /\ resWrites[t] = 0
       /\ \A k \in 1..Len(units) :
            (units[k].pc = "done" /\ resp'.op = "results" /\ resp'.task_id = units[k].task)
               => /\ resp'.code = 200 /\ resp'.status = COMPLETED
                  /\ resp'.results = units[k].res]_vars

\* C21 witness: the unit of task 1 has ended normally and GET /results
\* answers with the two issues it found.
C21_Witness ==
    /\ Len(units) >= 1 /\ units[1].pc = "done" /\ units[1].task = 1
    /\ resp.op = "results" /\ resp.task_id = 1 /\ resp.code = 200
    /\ resp.results # <<>> /\ resp.results[1].files # <<>>


\* C22: when a stage of the unit raises (marking processing, the fetches and
\* the analyzer, store_task_results) the unit enters its except clause with
\* that exception; there it writes failed with the exception's message when
\* the record exists, writes nothing when that update raises, and in both
\* cases re-raises the first exception; completed is never written after.
C22_WorkerFailurePath ==
    [][\A k \in 1..Len(units) :
          LET u == units[k]
              v == units'[k]
              t == u.task IN
          /\ (u.exc = "" /\ v.exc # "") => v.pc = "failed"
          /\ (u.pc \in {"processing", "analyze", "store"} /\ v.pc # u.pc)
                => \/ v.exc = "" /\ v.pc \notin {"failed", "raised"}
                   \/ v.exc # "" /\ v.pc = "failed"
          /\ (u.pc = "failed" /\ v.pc # "failed")
                => /\ v.pc = "raised" /\ v.exc = u.exc /\ u.exc # ""
                   /\ \/ tasks' = tasks
                      \/ /\ t \in DOMAIN tasks
                         /\ tasks'[t].status = FAILED
                         /\ tasks'[t].error_message = u.exc
          /\ (WorkerUpdate(k) /\ u.pc = "failed" /\ t \in DOMAIN tasks)
                => tasks'[t].status = FAILED /\ tasks'[t].error_message = u.exc
          /\ (u.pc \in {"failed", "raised"})
                => /\ v.pc \in {"failed", "raised"}
                   /\ (t \in DOMAIN tasks' /\ tasks'[t].status = COMPLETED)
                         => (t \in DOMAIN tasks /\ tasks[t].status = COMPLETED)]_vars

\* C22 witness: marking processing raised, the failed status was written
\* with the message of that exception, and the exception was re-raised.
C22_Witness ==
    /\ Len(units) >= 1
    /\ units[1].pc = "raised" /\ units[1].exc = RedisError /\ units[1].res = <<>>
    /\ units[1].task \in DOMAIN tasks
    /\ tasks[units[1].task].status = FAILED
    /\ tasks[units[1].task].error_message = RedisError

C30_RetentionRefresh ==
    [][/\ \A t \in DOMAIN tasks' :
            (t \notin DOMAIN tasks \/ tasks'[t] # tasks[t])
               => /\ tasks'[t].exp = now + TaskTTL
                  /\ tasks'[t].updated_at = now
       /\ \A t \in DOMAIN tasks \ DOMAIN tasks' :
            now' >= tasks[t].updated_at + TaskTTL
       /\ \A t \in DOMAIN tasks' :
            now' < tasks'[t].updated_at + TaskTTL
       /\ \A t \in DOMAIN tasks' :
            tasks'[t].status = COMPLETED => t \in DOMAIN results']_vars

\* the first three conjuncts of C30 alone: the retention of the task record
C30_TaskRecordRetention ==
    [][/\ \A t \in DOMAIN tasks' :
            (t \notin DOMAIN tasks \/ tasks'[t] # tasks[t])
               => /\ tasks'[t].exp = now + TaskTTL
                  /\ tasks'[t].updated_at = now
       /\ \A t \in DOMAIN tasks \ DOMAIN tasks' :
            now' >= tasks[t].updated_at + TaskTTL
       /\ \A t \in DOMAIN tasks' :
            now' < tasks'[t].updated_at + TaskTTL]_vars


\* the cache cannot serve the PR-analysis entry of a pull request: its store
\* does not answer, or the value under the key is not JSON
CacheFails(repo, pr, up) ==
    \/ ~up
    \/ AnalysisKey(repo, pr) \in DOMAIN cache /\ ~cache[AnalysisKey(repo, pr)].valid

\* C25: when the cache store fails or holds an undecodable value, get answers
\* absent, put, invalidate and stats answer false or empty, none changes the
\* cache or raises, and a create request persists a pending record and goes
\* on to dispatch as on a miss.
C25_CacheFailuresDegrade ==
    [][/\ \A p \in CachePairs, up \in BOOLEAN :
            (CacheGet(p[1], p[2], up) /\ CacheFails(p[1], p[2], up))
               => resp'.op = "cache_get" /\ resp'.value = <<>> /\ cache' = cache
       /\ \A ns \in {"pr_analysis", "pr_data"}, p \in CachePairs, r \in CachedResults :
            CachePut(ns, p[1], p[2], r, FALSE)
               => resp'.op = "cache_put" /\ ~resp'.ok /\ cache' = cache
       /\ \A n \in RepoNames, pr \in PrNumbers :
            InvalidatePrCache(n[1], n[2], pr, FALSE)
               => resp'.op = "invalidate" /\ ~resp'.ok /\ cache' = cache
       /\ GetCacheStats(FALSE) => resp'.op = "cache_stats" /\ ~resp'.ok
       /\ \A q \in Requests, up \in BOOLEAN :
            (/\ AnalyzePrWhen(q.repo_url, q.pr_number, q.github_token, up)
             /\ CacheFails(q.repo_url, q.pr_number, up))
               => /\ nextId \in DOMAIN tasks'
                  /\ tasks'[nextId].status = PENDING
                  /\ tasks'[nextId].repo_url = q.repo_url
                  /\ tasks'[nextId].pr_number = q.pr_number
                  /\ nextId \notin DOMAIN results'
                  /\ apc' = "dispatch" /\ a'.new = nextId
                  /\ resp' = NoResp
                  /\ cache' = cache]_vars

\* C25 witness: the value under the PR-analysis key of a pull request is not
\* JSON, and a create request for it has persisted a pending record and is
\* about to dispatch.
C25_Witness ==
    /\ apc = "dispatch"
    /\ AnalysisKey(a.repo, a.pr) \in DOMAIN cache
    /\ ~cache[AnalysisKey(a.repo, a.pr)].valid
    /\ a.new \in DOMAIN tasks /\ tasks[a.new].status = PENDING

\* C26: invalidate deletes the PR-analysis and the PR-data entry of the
\* pair and nothing else, answers true exactly when one of the two existed,
\* and a create request for the pair that comes next misses the cache and
\* persists a pending record.
C26_Invalidation ==
    [][/\ \A n \in RepoNames, pr \in PrNumbers :
            LET repo == "https://github.com/" \o n[1] \o "/" \o n[2]
                both == {AnalysisKey(repo, pr), DataKey(repo, pr)} IN
            InvalidatePrCache(n[1], n[2], pr, TRUE)
               => /\ DOMAIN cache' = DOMAIN cache \ both
                  /\ \A k \in DOMAIN cache' : cache'[k] = cache[k]
                  /\ resp'.op = "invalidate" /\ resp'.code = 200
                  /\ resp'.repo_url = repo /\ resp'.pr_number = pr
                  /\ resp'.ok = (both \cap DOMAIN cache # {})
                  /\ tasks' = tasks /\ results' = results
       /\ \A q \in Requests :
            (/\ resp.op = "invalidate" /\ resp.code = 200
             /\ resp.repo_url = q.repo_url /\ resp.pr_number = q.pr_number
             /\ AnalyzePrWhen(q.repo_url, q.pr_number, q.github_token, TRUE))
               => /\ nextId \in DOMAIN tasks'
                  /\ tasks'[nextId].status = PENDING
                  /\ apc' = "dispatch"]_vars

\* C26 witness: an invalidation has answered true; the entries of its pair
\* are gone and an entry of another pull request is still cached.
C26_Witness ==
    /\ resp.op = "invalidate" /\ resp.ok
    /\ AnalysisKey(resp.repo_url, resp.pr_number) \notin DOMAIN cache
    /\ DataKey(resp.repo_url, resp.pr_number) \notin DOMAIN cache
    /\ cache # <<>>


\* the create handlers that have persisted their record and not yet dispatched
InFlight == parked \o (IF apc = "dispatch" THEN <<a>> ELSE <<>>)

\* C29: whatever the interleaving of create requests that miss the cache,
\* each draws a task id no other request holds, writes a pending record of its
\* own pull request under it and leaves every other record as it is; each
\* dispatch appends one execution unit for the handler's own id and answers
\* 200 pending with that id, never a unit for an id already on the queue; and
\* the units enqueued and the handlers still to dispatch are as many as the
\* requests made.
C29_ConcurrentCreates ==
    [][/\ \A q \in Requests :
            AnalyzePr(q.repo_url, q.pr_number, q.github_token)
               => /\ nextId \notin DOMAIN tasks
                  /\ \A k \in 1..Len(units) : units[k].task # nextId
                  /\ \A i \in 1..Len(InFlight) : InFlight[i].new # nextId
                  /\ DOMAIN tasks' = DOMAIN tasks \cup {nextId}
                  /\ \A t \in DOMAIN tasks : tasks'[t] = tasks[t]
                  /\ tasks'[nextId].status = PENDING
                  /\ tasks'[nextId].repo_url = q.repo_url
                  /\ tasks'[nextId].pr_number = q.pr_number
                  /\ apc' = "dispatch" /\ a'.new = nextId
       /\ Dispatch
            => /\ Len(units') = Len(units) + 1
               /\ \A k \in 1..Len(units) : units'[k] = units[k] /\ units[k].task # a.new
               /\ units'[Len(units')].task = a.new
               /\ units'[Len(units')].repo_url = a.repo
               /\ units'[Len(units')].pr_number = a.pr
               /\ resp'.code = 200 /\ resp'.task_id = a.new /\ resp'.status = PENDING
               /\ tasks' = tasks
       /\ Len(units') + Len(InFlight') = nextId' - 1]_vars

\* C29 witness: two create requests for the same pull request were handled
\* at once, the second dispatched before the first, and both have their own
\* pending record and their own unit.
C29_Witness ==
    /\ Len(units) = 2 /\ apc = "idle" /\ parked = <<>>
    /\ units[1].task = 2 /\ units[2].task = 1
    /\ units[1].repo_url = units[2].repo_url /\ units[1].pr_number = units[2].pr_number
    /\ \A t \in {1, 2} : t \in DOMAIN tasks /\ tasks[t].status = PENDING


\* the keys of a store whose value is JSON
Decodable(store) == {t \in DOMAIN store : store[t].valid}

\* C31: with values that are not JSON in the store, a listing answers 200
\* with what it would list were KEYS to return the decodable keys only, a
\* sweep answers 200, counts in checked_count the decodable records only and
\* fails exactly the stuck ones among them, and no step of either changes a
\* value that is not JSON.
C31_BatchSkipsCorrupt ==
    [][/\ \A t \in DOMAIN tasks :
            ~tasks[t].valid => t \in DOMAIN tasks' /\ tasks'[t] = tasks[t]
       /\ (apc = "idle" /\ resp'.op = "list")
            => /\ resp'.code = 200
               /\ \E order \in KeyOrders(Decodable(tasks)) :
                     resp'.tasks = Truncate(SortNewestFirst(Listed(order, resp'.status_filter)),
                                            resp'.limit)
               /\ tasks' = tasks
       /\ (apc = "cleanup_get" /\ apc' = "idle")
            => LET before == a.store
                   clean == [t \in Decodable(before) |-> before[t]] IN
               /\ resp'.op = "cleanup" /\ resp'.code = 200
               /\ resp'.checked = Cardinality(DOMAIN clean)
               /\ resp'.cleaned = Cardinality(StuckIn(clean, a.age))
               /\ {resp'.stuck[i] : i \in 1..Len(resp'.stuck)} = StuckIn(clean, a.age)
               /\ \A t \in DOMAIN clean :
                     IF t \in StuckIn(clean, a.age)
                     THEN tasks'[t].status = FAILED
                     ELSE tasks'[t] = clean[t]]_vars

\* C31 witness: in a store with a value that is not JSON, a sweep has failed
\* a stuck task and the listing that follows holds the two decodable
\* records, the failed one among them.
C31_Witness ==
    /\ resp.op = "list" /\ resp.code = 200 /\ Len(resp.tasks) = 2
    /\ Cardinality(DOMAIN tasks) = 3
    /\ \E t \in DOMAIN tasks : ~tasks[t].valid
    /\ \E i \in 1..2 :
          /\ resp.tasks[i].status = FAILED
          /\ resp.tasks[i].error_message = "Task stuck in processing for more than 2 hours"


\* C32: a response of the results endpoint that reports status completed
\* carries results.
C32_CompletedComesWithResults ==
    (resp.op = "results" /\ resp.code = 200 /\ resp.status = COMPLETED)
        => resp.results # <<>>


\* C33: the write of a cleanup sweep changes the status of a task record
\* only if that status is processing when the write is made.
C33_SweepWritesProcessingOnly ==
    [][(/\ apc = "cleanup_update" /\ apc' = "cleanup_get"
        /\ a.id \in DOMAIN tasks
        /\ tasks'[a.id].status # tasks[a.id].status)
           => tasks[a.id].status = PROCESSING]_vars


C34_PendingLeadsToTerminal ==
    \A t \in TaskIds :
        (t \in DOMAIN tasks /\ tasks[t].status = PENDING)
            ~> (t \notin DOMAIN tasks \/ tasks[t].status \in Terminal)


\* C35: the step of a create, retrigger or cancel call that answers 4xx or
\* 5xx creates or changes no task record, Result Record or cache entry and
\* enqueues no unit.
C35_ErrorLeavesStore ==
    [][(resp'.op \in {"create", "retrigger", "cancel"} /\ resp'.code >= 400)
          => UNCHANGED <<tasks, results, cache, units>>]_vars


\* C36: no task of a listing carries a token: its dict has no github_token
\* key, or None under it.
C36_TokenNotListed ==
    (resp.op = "list")
        => \A i \in 1..Len(resp.tasks) :
              "github_token" \in DOMAIN resp.tasks[i] => resp.tasks[i].github_token = ""


\* the step leaves the task record and the Result Record of every task id
\* outside ts as they are, and creates none outside ts
OnlyTouches(ts) ==
    /\ DOMAIN tasks' \subseteq DOMAIN tasks \cup ts
    /\ DOMAIN results' \subseteq DOMAIN results \cup ts
    /\ \A t \in DOMAIN tasks \ ts : t \in DOMAIN tasks' /\ tasks'[t] = tasks[t]
    /\ \A t \in DOMAIN results \ ts : t \in DOMAIN results' /\ results'[t] = results[t]

\* C37: a step of the unit of task t, of a create drawing id t or of a cancel
\* of t changes no task record and no Result Record but those of t, a step of
\* retrigger(t1) none but those of t1 and of the new task, and a dispatch
\* none at all.
C37_OtherTasksUntouched ==
    [][/\ \A k \in 1..Len(units) :
            units'[k] # units[k] => OnlyTouches({units[k].task})
       /\ (apc = "idle" /\ resp'.op = "create") => OnlyTouches({nextId})
       /\ (apc = "idle" /\ apc' = "dispatch" /\ a'.op = "create") => OnlyTouches({a'.new})
       /\ (apc = "idle" /\ (apc' = "cancel_update" \/ resp'.op = "cancel")) => OnlyTouches({})
       /\ (apc = "cancel_update" /\ apc' = "idle") => OnlyTouches({a.id})
       /\ (apc = "idle" /\ resp'.op = "retrigger" /\ resp'.code < 500) => OnlyTouches({})
       /\ (apc = "idle" /\ resp'.op = "retrigger" /\ resp'.code = 500) => OnlyTouches({nextId})
       /\ (apc = "idle" /\ apc' = "retrigger_update") => OnlyTouches({a'.id, a'.new})
       /\ (apc = "retrigger_update" /\ apc' = "dispatch") => OnlyTouches({a.id})
       /\ (apc = "dispatch" /\ apc' = "idle") => OnlyTouches({})]_vars

\* C37 witness: task 1 was retriggered as task 2, whose unit stored results
\* and completed it; task 1 holds the mark of the retrigger and nothing of
\* task 2's completion.
C37_Witness ==
    /\ DOMAIN tasks = {1, 2} /\ DOMAIN results = {2}
    /\ tasks[1].status = CANCELLED /\ tasks[1].error_message = "Retriggered as task 2"
    /\ tasks[1].completed_at = NoTime
    /\ tasks[2].status = COMPLETED


\* C38 as stated: a sweep run right after a sweep with the same
\* max_age_hours reports cleaned_count 0 and no stuck tasks and leaves the
\* status and error message of every task as the first left them.
C38_CleanupIdempotent ==
    [][(apc = "cleanup_get" /\ apc' = "idle" /\ a.prev # <<>>)
          => /\ resp'.cleaned = 0
             /\ resp'.stuck = <<>>
             /\ \A t \in DOMAIN a.store :
                   /\ t \in DOMAIN tasks'
                   /\ tasks'[t].status = a.store[t].status
                   /\ tasks'[t].error_message = a.store[t].error_message]_vars

\* the processing tasks of the store found by the second sweep whose
\* creation time is between the cutoff of the first and that of the second
CrossedCutoff ==
    {t \in DOMAIN a.store :
        /\ a.store[t].valid
        /\ a.store[t].status = PROCESSING
        /\ a.store[t].created_at >= a.prev[1].cutoff_time
        /\ a.store[t].created_at < a.cutoff}

\* C38 amended: a sweep run right after a sweep with the same max_age_hours
\* fails exactly the processing tasks whose creation time lies between the
\* two cutoffs and leaves the status and error message of every other task
\* as the first left them; when both have the same cutoff it reports
\* cleaned_count 0 and no stuck tasks.
C38_SecondSweepFailsNewlyStuck ==
    [][(apc = "cleanup_get" /\ apc' = "idle" /\ a.prev # <<>>)
          => /\ resp'.cleaned = Cardinality(CrossedCutoff)
             /\ {resp'.stuck[i] : i \in 1..Len(resp'.stuck)} = CrossedCutoff
             /\ Len(resp'.stuck) = Cardinality(CrossedCutoff)
             /\ \A t \in DOMAIN a.store \ CrossedCutoff :
                   /\ t \in DOMAIN tasks'
                   /\ tasks'[t].status = a.store[t].status
                   /\ tasks'[t].error_message = a.store[t].error_message
             /\ \A t \in CrossedCutoff : tasks'[t].status = FAILED
             /\ (a.cutoff = a.prev[1].cutoff_time)
                   => resp'.cleaned = 0 /\ resp'.stuck = <<>>]_vars

\* C38 witness: a second sweep with the cutoff of the first, which failed a
\* stuck task, has looked at every key and found nothing to fail.
C38_Witness ==
    /\ apc = "cleanup_get" /\ a.keys = {} /\ a.prev # <<>>
    /\ a.cutoff = a.prev[1].cutoff_time
    /\ a.cleaned = 0 /\ a.checked >= 2
    /\ \E t \in DOMAIN tasks :
          /\ tasks[t].status = FAILED
          /\ tasks[t].error_message = "Task stuck in processing for more than 2 hours"


\* the sum of the values of a tally
RECURSIVE SumOf(_)
SumOf(f) ==
    IF DOMAIN f = {} THEN 0
    ELSE LET s == CHOOSE x \in DOMAIN f : TRUE IN
         f[s] + SumOf([x \in DOMAIN f \ {s} |-> f[x]])

\* C39: in a response of the list endpoint total is the number of returned
\* tasks and at most limit, the values of status_counts sum to total, each
\* is the number of returned tasks of its status, and with a status filter
\* status_counts has no key but that status.
C39_ListSummary ==
    (resp.op = "list")
        => /\ resp.total = Len(resp.tasks)
           /\ resp.total <= resp.limit
           /\ SumOf(resp.status_counts) = resp.total
           /\ \A s \in DOMAIN resp.status_counts :
                 resp.status_counts[s] =
                     Cardinality({i \in 1..Len(resp.tasks) : resp.tasks[i].status = s})
           /\ resp.status_filter # "" => DOMAIN resp.status_counts \subseteq {resp.status_filter}

\* C39 witness: of three completed tasks, the listing of completed tasks
\* with limit 2 holds two and counts two completed.
C39_Witness ==
    /\ resp.op = "list" /\ resp.status_filter = COMPLETED /\ resp.limit = 2
    /\ resp.total = 2 /\ DOMAIN resp.status_counts = {COMPLETED}
    /\ resp.status_counts[COMPLETED] = 2
    /\ Cardinality({t \in DOMAIN tasks : tasks[t].valid /\ tasks[t].status = COMPLETED}) = 3

====
